---------------------------- MODULE Spec2Model ----------------------------
(***************************************************************************)
(* TR-13 crane-runway field check (app.js).  The model covers the station  *)
(* grid builders, the tolerance resolvers, the rate-of-change metric, the  *)
(* layout / compliance flow, the survey station-table flow, the survey     *)
(* CSV import with its charts, the fraction formatter, the zone parsers,   *)
(* the chart renderer and the cross-level schematic, and the service       *)
(* worker that caches the app's files (sw.js, unnamed/part_000).           *)
(*                                                                         *)
(* Numbers.  JavaScript numbers are modelled as exact integers in fixed    *)
(* units:                                                                  *)
(*   positions  : micro-feet (1e-6 ft), the clamp used by the rate code;   *)
(*   values     : 1/160 inch (0.25 in = 40, 0.30 in = 48, 1/32 in = 5).    *)
(*   chart heights : 1/640 inch, so that a value times 1.25 is exact.      *)
(* Rates are exact rationals <<num, den>> in lowest terms.  Binary         *)
(* floating-point rounding is not modelled.                                *)
(***************************************************************************)
EXTENDS Integers, Sequences, FiniteSets, TLC

VARIABLES
    flow,           \* which part of the program the behaviour exercises
    lastOp,         \* the handler or function that produced the current state
    edits,          \* number of input changes made by the user so far
    so,             \* stationOffsets: the loop's frame (pc, arguments, locals)
    tq,             \* tolerance resolvers: arguments and results
    rq,             \* rateOfChangePer20ft: arguments and result
    columnsInput,   \* #columnsPerSide value
    spacingInput,   \* #measuredStationDistance value
    fields,         \* inputs inside #layoutContainer: id -> value
    summary,        \* #summary text
    resultBody,     \* #resultTable tbody rows
    suggestionList, \* #suggestionList items
    latestRows,     \* latestRows
    latestCrossLevelDiagramSvg,
    surveyInputs,   \* survey form: start, length, spacing, tolerances
    surveyTable,    \* #surveyTable tbody rows
    surveyStatus,   \* #surveyStatus text
    surveyEval,     \* locals of the last evaluateAndRenderSurvey run
    straightnessSvg,              \* #straightnessSvg content
    eccentricitySvg,              \* #eccentricitySvg content
    latestStraightnessChartSvg,
    latestEccentricityChartSvg,
    surveyCsv,      \* #surveyCsv text: header line and data lines
    surveyData,     \* surveyData: the parsed survey, or null
    parsedCsv,      \* history: the text the current surveyData was parsed from
    call,           \* a renderer or formatter called on its own: arguments, result
    sw              \* the service worker: lifecycle, Cache storage, last response

vars == <<flow, lastOp, edits, so, tq, rq, columnsInput, spacingInput, fields,
          summary, resultBody, suggestionList, latestRows,
          latestCrossLevelDiagramSvg, surveyInputs, surveyTable, surveyStatus,
          surveyEval, straightnessSvg, eccentricitySvg,
          latestStraightnessChartSvg, latestEccentricityChartSvg, surveyCsv,
          surveyData, parsedCsv, call, sw>>

layoutVars == <<columnsInput, spacingInput, fields, summary, resultBody,
                suggestionList, latestRows, latestCrossLevelDiagramSvg>>
tableVars  == <<surveyInputs, surveyTable, surveyStatus, surveyEval,
                straightnessSvg, eccentricitySvg, latestStraightnessChartSvg,
                latestEccentricityChartSvg>>
csvVars    == <<surveyCsv, surveyData, parsedCsv>>

(***************************************************************************)
(* Units and arithmetic helpers                                            *)
(***************************************************************************)

\* 1 ft in position units: the rate code clamps dx at 1e-6 ft = 1 unit.
MicroPerFt == 1000000

Ft(n) == n * MicroPerFt

\* Number.prototype.toFixed(3) keeps multiples of 0.001 ft = 1000 units.
Fixed3Step == 1000

\* Reference distance of the rate metric: 20 ft.
RefDistFt == 20

Abs(x) == IF x < 0 THEN -x ELSE x

Min2(a, b) == IF a < b THEN a ELSE b

Max2(a, b) == IF a > b THEN a ELSE b

\* The rational n/d (d > 0) in lowest terms.
Rat(n, d) ==
    LET RECURSIVE GCD(_, _)
        GCD(a, b) == IF b = 0 THEN a ELSE GCD(b, a % b)
        g == GCD(n, d)
    IN  <<n \div g, d \div g>>

\* r <= t for a rational r and an integer t.
RatLeq(r, t) == r[1] <= t * r[2]

Range(s) == {s[i] : i \in DOMAIN s}

(***************************************************************************)
(* Values of the variables a behaviour does not exercise                   *)
(***************************************************************************)

swIdle == [phase |-> "none"]

soIdle == [pc |-> "idle", d |-> 0, s |-> 0, offset |-> 0, out |-> <<>>]

tqIdle == [pc |-> "idle"]

rqIdle == [pc |-> "idle"]

\* An SVG document: a placeholder with a message, or a drawing.
NoSvg == [kind |-> "none", msg |-> "", passN |-> FALSE, passS |-> FALSE]

EmptySummary == [kind |-> "none", passed |-> 0, total |-> 0]

EmptyStatus ==
    [kind |-> "none", n |-> 0, startFt |-> 0, endFt |-> 0, stepFt |-> 0,
     passN |-> FALSE, passS |-> FALSE]

\* #layoutContainer without inputs.
EmptyFields == [id \in {} |-> 0]

LayoutIdle ==
    /\ columnsInput = 0
    /\ spacingInput = 0
    /\ fields = EmptyFields
    /\ summary = EmptySummary
    /\ resultBody = <<>>
    /\ suggestionList = <<>>
    /\ latestRows = <<>>
    /\ latestCrossLevelDiagramSvg = [kind |-> "none", pts |-> <<>>]

\* surveyData = null
NullSurveyData ==
    [isNull |-> TRUE, stationFt |-> <<>>, railN |-> <<>>, railS |-> <<>>,
     beamN |-> <<>>, beamS |-> <<>>, hasBeam |-> FALSE]

\* An empty #surveyCsv.
EmptyCsv == [headers |-> <<>>, rows |-> <<>>]

CsvIdle ==
    /\ surveyCsv = EmptyCsv
    /\ surveyData = NullSurveyData
    /\ parsedCsv = EmptyCsv

TableIdle ==
    /\ surveyInputs = [pc |-> "idle"]
    /\ surveyTable = <<>>
    /\ surveyStatus = EmptyStatus
    /\ surveyEval = [pc |-> "idle"]
    /\ straightnessSvg = NoSvg
    /\ eccentricitySvg = NoSvg
    /\ latestStraightnessChartSvg = NoSvg
    /\ latestEccentricityChartSvg = NoSvg

(***************************************************************************)
(* stationOffsets (app.js 188-192): the loop, one iteration per step       *)
(***************************************************************************)

\* Bound on the iterations a behaviour follows; every call with a positive
\* spacing drawn below finishes in fewer.
MaxLoopIter == 7

\* Loop condition of stationOffsets: offset < designDistanceFt.
LoopCondLe(offset, d) == offset <= d

LoopCond(offset, d) == offset < d

\* const offsets = []; let offset = 0
StationOffsetsEnter(d, s) ==
    [pc |-> "loop", d |-> d, s |-> s, offset |-> 0, out |-> <<>>]

InitOffsets ==
    /\ flow = "offsets"
    /\ lastOp = "init"
    /\ edits = 0
    /\ CsvIdle
    /\ sw = swIdle
    /\ call = [pc |-> "idle"]
    /\ \E d \in {-10, 0, 10, 20, 25, 60}, s \in {-10, 0, 10, 15, 20, 60} :
          so = StationOffsetsEnter(Ft(d), Ft(s))
    /\ tq = tqIdle
    /\ rq = rqIdle
    /\ LayoutIdle
    /\ TableIdle

\* offsets.push(offset); offset += stationDistanceFt
StationOffsetsStep ==
    /\ flow \in {"offsets", "layout"}
    /\ so.pc = "loop"
    /\ LoopCond(so.offset, so.d)
    /\ Len(so.out) < MaxLoopIter
    /\ so' = [so EXCEPT !.out = Append(so.out, so.offset),
                        !.offset = so.offset + so.s]
    /\ lastOp' = "stationOffsets"
    /\ UNCHANGED <<flow, sw, csvVars, call, edits, tq, rq, layoutVars, tableVars>>

\* return offsets
StationOffsetsReturn ==
    /\ flow = "offsets"
    /\ so.pc = "loop"
    /\ ~LoopCond(so.offset, so.d)
    /\ so' = [so EXCEPT !.pc = "done"]
    /\ lastOp' = "stationOffsets"
    /\ UNCHANGED <<flow, sw, csvVars, call, edits, tq, rq, layoutVars, tableVars>>

NextOffsets == StationOffsetsStep \/ StationOffsetsReturn

SpecOffsets == InitOffsets /\ [][NextOffsets]_vars

\* The same function as an operator, for the callers that need its value.
\* Defined only where the loop ends (see StationOffsetsDiverges).
RECURSIVE stationOffsetsFrom(_, _, _)
stationOffsetsFrom(offset, d, s) ==
    IF LoopCond(offset, d)
    THEN <<offset>> \o stationOffsetsFrom(offset + s, d, s)
    ELSE <<>>

stationOffsets(designDistanceFt, stationDistanceFt) ==
    stationOffsetsFrom(0, designDistanceFt, stationDistanceFt)

\* The calls whose loop condition never becomes false: offset starts at 0 <
\* d and never grows.
StationOffsetsDiverges(d, s) == d > 0 /\ s <= 0

\* The frame agrees with the operator, and the diverging calls are exactly
\* those that never return.
OffsetsOperatorAgrees ==
    (flow = "offsets" /\ so.pc = "done") =>
        /\ ~StationOffsetsDiverges(so.d, so.s)
        /\ so.out = stationOffsets(so.d, so.s)

OffsetsDivergingNeverExit ==
    (flow = "offsets" /\ so.pc = "loop" /\ StationOffsetsDiverges(so.d, so.s)) =>
        LoopCond(so.offset, so.d)

\* The multiples of s below d, in ascending order (s > 0).
MultiplesBelow(d, s) ==
    LET n == Cardinality({k \in 0..MaxLoopIter : k * s < d})
    IN  [i \in 1..n |-> (i - 1) * s]

\* C7: stationOffsets(lengthFt, spacingFt) with spacingFt > 0 returns exactly
\* the ascending multiples 0, s, 2s, ... strictly below lengthFt; the end
\* station is excluded when the length is an exact multiple of the spacing,
\* and a length <= 0 gives the empty sequence.
C7_HalfOpenMultiples ==
    (flow = "offsets" /\ so.pc = "done" /\ so.s > 0) =>
        /\ so.out = MultiplesBelow(so.d, so.s)
        /\ \A i \in DOMAIN so.out : so.out[i] < so.d
        /\ (so.d <= 0 => so.out = <<>>)

C7_Witness ==
    /\ flow = "offsets"
    /\ so.pc = "done"
    /\ so.d = Ft(60)
    /\ so.s = Ft(10)
    /\ so.out = <<Ft(0), Ft(10), Ft(20), Ft(30), Ft(40), Ft(50)>>


(***************************************************************************)
(* Tolerance resolvers: tolAt (app.js 1398-1402), buildChartSvg.tolAt      *)
(* (749-757) and buildChartSvg.tolAtStation (1887-1895)                    *)
(***************************************************************************)

MaxZones == 2

\* Zones {startFt, endFt, tolIn}; the third is a reversed range.
ZoneSet ==
    { [startFt |-> Ft(0),   endFt |-> Ft(50),  tolIn |-> 40],
      [startFt |-> Ft(50),  endFt |-> Ft(100), tolIn |-> 80],
      [startFt |-> Ft(100), endFt |-> Ft(50),  tolIn |-> 20],
      [startFt |-> Ft(0),   endFt |-> Ft(100), tolIn |-> 60] }

\* ft >= z.startFt && ft <= z.endFt
ZoneContainsOpenEnd(z, ft) == ft >= z.startFt /\ ft < z.endFt

ZoneContains(z, ft) == ft >= z.startFt /\ ft <= z.endFt

\* Array.prototype.find: index of the first zone from i on that contains ft,
\* 0 when there is none.
RECURSIVE FindZoneFrom(_, _, _)
FindZoneFrom(zones, ft, i) ==
    IF i > Len(zones) THEN 0
    ELSE IF ZoneContains(zones[i], ft) THEN i
    ELSE FindZoneFrom(zones, ft, i + 1)

FindZone(zones, ft) == FindZoneFrom(zones, ft, 1)

\* tolAt(ft, zones, fallbackTol).  parseZones returns null in place of an empty
\* table, so the absent table (!zones) is the empty sequence.
tolAt(ft, zones, fallbackTol) ==
    IF zones = <<>> THEN fallbackTol
    ELSE LET z == FindZone(zones, ft)
         IN  IF z # 0 THEN zones[z].tolIn ELSE fallbackTol

\* buildChartSvg's tolAt / tolAtStation over tolWindow.
tolAtStation(ft, tolWindow) ==
    IF tolWindow.type = "none" THEN 0
    ELSE IF tolWindow.type = "constant" THEN tolWindow.tolIn
    ELSE IF tolWindow.type = "zones"
    THEN LET z == FindZone(tolWindow.zones, ft)
         IN  IF z # 0 THEN tolWindow.zones[z].tolIn
             ELSE IF Len(tolWindow.zones) > 0
                  THEN tolWindow.zones[Len(tolWindow.zones)].tolIn
                  ELSE 0
    ELSE 0

ConstantWindow(tolIn) == [type |-> "constant", tolIn |-> tolIn, zones |-> <<>>]

ZonedWindow(zones) == [type |-> "zones", tolIn |-> 0, zones |-> zones]

InitTol ==
    /\ flow = "tol"
    /\ lastOp = "init"
    /\ edits = 0
    /\ CsvIdle
    /\ sw = swIdle
    /\ call = [pc |-> "idle"]
    /\ so = soIdle
    /\ \E zones \in UNION {[1..k -> ZoneSet] : k \in 0..MaxZones},
          ft \in {-5, 0, 25, 50, 75, 100, 150}, fb \in {0, 120} :
          tq = [pc |-> "args", zones |-> zones, ft |-> Ft(ft), fallbackTol |-> fb,
                standalone |-> 0, chart |-> 0, constant |-> 0]
    /\ rq = rqIdle
    /\ LayoutIdle
    /\ TableIdle

\* One position resolved by each resolver, and by a constant window holding
\* the caller default.
ResolveTolerance ==
    /\ flow = "tol"
    /\ tq.pc = "args"
    /\ tq' = [tq EXCEPT
                !.pc = "done",
                !.standalone = tolAt(tq.ft, tq.zones, tq.fallbackTol),
                !.chart = tolAtStation(tq.ft, ZonedWindow(tq.zones)),
                !.constant = tolAtStation(tq.ft, ConstantWindow(tq.fallbackTol))]
    /\ lastOp' = "tolAt"
    /\ UNCHANGED <<flow, sw, csvVars, call, edits, so, rq, layoutVars, tableVars>>

NextTol == ResolveTolerance

SpecTol == InitTol /\ [][NextTol]_vars

\* Indices of the zones whose closed range holds the position.
MatchingZones(zones, ft) ==
    {k \in DOMAIN zones : zones[k].startFt <= ft /\ ft <= zones[k].endFt}

FirstMatching(zones, ft) ==
    CHOOSE k \in MatchingZones(zones, ft) :
        \A j \in MatchingZones(zones, ft) : k <= j

\* C5: a zoned model resolves a position to the tolerance of the first zone
\* in input order whose range holds it, both ends inclusive (the earlier zone
\* wins on a shared boundary); a constant model returns its fixed value at
\* every position.
C5_FirstZoneWins ==
    (flow = "tol" /\ tq.pc = "done") =>
        /\ tq.constant = tq.fallbackTol
        /\ MatchingZones(tq.zones, tq.ft) # {} =>
              /\ tq.standalone = tq.zones[FirstMatching(tq.zones, tq.ft)].tolIn
              /\ tq.chart = tq.zones[FirstMatching(tq.zones, tq.ft)].tolIn

\* Position 50 ft is the shared boundary of (0,50,0.25) and (50,100,0.5).
C5_Witness ==
    /\ flow = "tol"
    /\ tq.pc = "done"
    /\ tq.zones = << [startFt |-> Ft(0),  endFt |-> Ft(50),  tolIn |-> 40],
                     [startFt |-> Ft(50), endFt |-> Ft(100), tolIn |-> 80] >>
    /\ tq.ft = Ft(50)
    /\ tq.standalone = 40
    /\ tq.chart = 40

\* C6: outside every zone all resolvers return the same tolerance for the
\* same zones, position and default.
C6_FallbackConsistent ==
    (flow = "tol" /\ tq.pc = "done" /\ tq.zones # <<>>
                  /\ MatchingZones(tq.zones, tq.ft) = {}) =>
        tq.standalone = tq.chart

(***************************************************************************)
(* rateOfChangePer20ft (app.js 688-718)                                    *)
(***************************************************************************)

MaxPoints == 3

\* if (diffTo20 < bestDx); bestDx is Infinity exactly while bestJ is -1
\* (index 0 here), and every diffTo20 is below Infinity.
CloserOrEqual(diffTo20, bestJ, bestDx) == bestJ = 0 \/ diffTo20 <= bestDx

Closer(diffTo20, bestJ, bestDx) == bestJ = 0 \/ diffTo20 < bestDx

\* The inner loop over j from index j on; returns bestJ (0 for -1).
RECURSIVE BestNeighborFrom(_, _, _, _, _)
BestNeighborFrom(stationFt, i, j, bestJ, bestDx) ==
    IF j > Len(stationFt) THEN bestJ
    ELSE IF j = i THEN BestNeighborFrom(stationFt, i, j + 1, bestJ, bestDx)
    ELSE LET dx == Abs(stationFt[i] - stationFt[j])
         IN  IF dx <= 0
             THEN BestNeighborFrom(stationFt, i, j + 1, bestJ, bestDx)
             ELSE LET diffTo20 == Abs(dx - Ft(RefDistFt))
                  IN  IF Closer(diffTo20, bestJ, bestDx)
                      THEN BestNeighborFrom(stationFt, i, j + 1, j, diffTo20)
                      ELSE BestNeighborFrom(stationFt, i, j + 1, bestJ, bestDx)

\* The body of the outer loop for point i: 0, or dy * (20 / dx).
RateAt(stationFt, y, i) ==
    LET bestJ == BestNeighborFrom(stationFt, i, 1, 0, 0)
    IN  IF bestJ = 0 THEN Rat(0, 1)
        ELSE LET dx == Abs(stationFt[i] - stationFt[bestJ])
                 dy == Abs(y[i] - y[bestJ])
             IN  Rat(dy * Ft(RefDistFt), dx)

rateOfChangePer20ft(stationFt, y) ==
    [i \in 1..Len(y) |-> RateAt(stationFt, y, i)]

\* The arguments renderSurveyCharts passes: the parsed survey, which holds
\* at least two stations sorted by position.
InitRate ==
    /\ flow = "rate"
    /\ lastOp = "init"
    /\ edits = 0
    /\ CsvIdle
    /\ sw = swIdle
    /\ call = [pc |-> "idle"]
    /\ so = soIdle
    /\ tq = tqIdle
    /\ \E n \in 2..MaxPoints :
       \E st \in [1..n -> {0, 10, 20, 30, 45}], y \in [1..n -> {-48, 0, 48}] :
          /\ \A i \in 1..(n - 1) : st[i] <= st[i + 1]
          /\ rq = [pc |-> "args", stationFt |-> [i \in 1..n |-> Ft(st[i])],
                   y |-> y, out |-> <<>>]
    /\ LayoutIdle
    /\ TableIdle

ComputeRate ==
    /\ flow = "rate"
    /\ rq.pc = "args"
    /\ rq' = [rq EXCEPT !.pc = "done",
                        !.out = rateOfChangePer20ft(rq.stationFt, rq.y)]
    /\ lastOp' = "rateOfChangePer20ft"
    /\ UNCHANGED <<flow, sw, csvVars, call, edits, so, tq, layoutVars, tableVars>>

NextRate == ComputeRate

SpecRate == InitRate /\ [][NextRate]_vars

\* The neighbours point i may be compared with, and the one the claim names:
\* the first in input order among those closest to 20 ft away.
RateCandidates(x, i) == {j \in DOMAIN x : j # i /\ x[j] # x[i]}

DistTo20(x, i, j) == Abs(Abs(x[i] - x[j]) - Ft(20))

RateNeighbor(x, i) ==
    CHOOSE j \in RateCandidates(x, i) :
        /\ \A k \in RateCandidates(x, i) : DistTo20(x, i, j) <= DistTo20(x, i, k)
        /\ \A k \in RateCandidates(x, i) :
              DistTo20(x, i, k) = DistTo20(x, i, j) => j <= k

fracMap ==
    << [val |-> 0,   s |-> "0\""],
       [val |-> 10,  s |-> "1/16\""],
       [val |-> 20,  s |-> "1/8\""],
       [val |-> 30,  s |-> "3/16\""],
       [val |-> 40,  s |-> "1/4\""],
       [val |-> 50,  s |-> "5/16\""],
       [val |-> 60,  s |-> "3/8\""],
       [val |-> 70,  s |-> "7/16\""],
       [val |-> 80,  s |-> "1/2\""],
       [val |-> 100, s |-> "5/8\""],
       [val |-> 120, s |-> "3/4\""],
       [val |-> 140, s |-> "7/8\""],
       [val |-> 160, s |-> "1\""],
       [val |-> 180, s |-> "1 1/8\""],
       [val |-> 200, s |-> "1 1/4\""],
       [val |-> 240, s |-> "1 1/2\""],
       [val |-> 320, s |-> "2\""],
       [val |-> 480, s |-> "3\""] >>

\* The same comparison, taking an entry that is as close as the best so far.
FractionCloserOrEqual(f, best, abs) == Abs(f.val - abs) <= Abs(best.val - abs)

\* A comparison that keeps the last entry not above the magnitude.
FractionNotAbove(f, best, abs) == f.val <= abs

\* if (Math.abs(f.val - abs) < Math.abs(best.val - abs)) best = f
FractionCloser(f, best, abs) == Abs(f.val - abs) < Abs(best.val - abs)

\* let best = fracMap[0]; for (const f of fracMap) {...}
RECURSIVE NearestFractionFrom(_, _, _)
NearestFractionFrom(abs, i, best) ==
    IF i > Len(fracMap) THEN best
    ELSE NearestFractionFrom(abs, i + 1,
            IF FractionCloser(fracMap[i], best, abs) THEN fracMap[i] ELSE best)

\* nearestFractionStringInches(valueIn): best.s
nearestFractionStringInches(valueIn) ==
    NearestFractionFrom(Abs(valueIn), 1, fracMap[1]).s

\* Arguments a behaviour calls the formatter with: every multiple of 1/32 in
\* up to 3 1/8 in, which holds every table value and every midpoint of two
\* neighbouring table values, and 10 in; each with both signs.
FractionValueSet == {5 * k : k \in -100..100} \cup {-1600, 1600}

(***************************************************************************)
(* Chart renderer (app.js 680-686, 722-851, 1864-1973)                     *)
(***************************************************************************)

\* Chart heights are kept in quarter units (1/640 in), so that a height
\* times 1.25 stays an integer; 1 in is 640 of them.
QuarterPerIn == 640

\* The eccentricity tolerance used when no zone table is given: 0.75 in.
EccDefaultTol == 120

\* seriesMaxAbs: let m = 0; for (const v of y) m = Math.max(m, Math.abs(v))
RECURSIVE seriesMaxAbsFrom(_, _, _)
seriesMaxAbsFrom(y, i, m) ==
    IF i > Len(y) THEN m ELSE seriesMaxAbsFrom(y, i + 1, Max2(m, Abs(y[i])))

seriesMaxAbs(y) == seriesMaxAbsFrom(y, 1, 0)

\* The same height with the one-inch value as a lower bound.
YAbsMaxFloor(m) == Max2(QuarterPerIn, 5 * m)

\* m * 1.25 || 1: the product, or 1 in when the product is 0.
YAbsMax(m) == IF 5 * m = 0 THEN QuarterPerIn ELSE 5 * m

\* Math.min(...stationFt), Math.max(...stationFt) of a non-empty series.
RECURSIVE MinFrom(_, _, _)
MinFrom(s, i, m) == IF i > Len(s) THEN m ELSE MinFrom(s, i + 1, Min2(m, s[i]))

RECURSIVE MaxFrom(_, _, _)
MaxFrom(s, i, m) == IF i > Len(s) THEN m ELSE MaxFrom(s, i + 1, Max2(m, s[i]))

\* The span of the station list with the clamp at 1 ft.
ChartXSpanOneFt(stationFt) ==
    IF Len(stationFt) = 0 THEN Ft(1)
    ELSE Max2(Ft(1), MaxFrom(stationFt, 1, stationFt[1])
                     - MinFrom(stationFt, 1, stationFt[1]))

\* const xSpan = Math.max(1e-6, xMax - xMin).  Of an empty series xMin is
\* Infinity and xMax is -Infinity, the difference is -Infinity and the
\* clamp returns 1e-6 ft.
ChartXSpanFt(stationFt) ==
    IF Len(stationFt) = 0 THEN 1
    ELSE Max2(1, MaxFrom(stationFt, 1, stationFt[1])
                 - MinFrom(stationFt, 1, stationFt[1]))

\* (x - xMin) / xSpan, the share of the plot width xToPx puts x at; NaN when
\* x is undefined or xMin is not finite.
xToPx(stationFt, i, xSpan) ==
    IF i \in DOMAIN stationFt
    THEN [nan |-> FALSE,
          share |-> Rat(stationFt[i] - MinFrom(stationFt, 1, stationFt[1]), xSpan)]
    ELSE [nan |-> TRUE, share |-> <<0, 1>>]

\* highlightMax: let maxIdx = 0, maxAbs = 0; if (a > maxAbs) {...}
RECURSIVE HighlightFrom(_, _, _, _)
HighlightFrom(y, i, maxIdx, maxAbs) ==
    IF i > Len(y) THEN [maxIdx |-> maxIdx, maxAbs |-> maxAbs]
    ELSE IF Abs(y[i]) > maxAbs
         THEN HighlightFrom(y, i + 1, i, Abs(y[i]))
         ELSE HighlightFrom(y, i + 1, maxIdx, maxAbs)

\* buildChartSvg: the document it returns, by what it draws.  It has no
\* branch for an empty station list: every call returns a titled plot.
buildChartSvg(title, stationFt, series, yMin, yMax, tolWindow, passN, passS) ==
    LET xSpan == ChartXSpanFt(stationFt)
        upper == [i \in DOMAIN stationFt |-> tolAtStation(stationFt[i], tolWindow)]
    IN  [kind |-> "chart", msg |-> title, passN |-> passN, passS |-> passS,
         yMin |-> yMin, yMax |-> yMax, xSpan |-> xSpan,
         upper |-> upper, lower |-> [i \in DOMAIN upper |-> -upper[i]],
         markers |-> [k \in DOMAIN series |->
                        LET h == HighlightFrom(series[k], 1, 1, 0)
                        IN  [maxAbs |-> h.maxAbs,
                             cx |-> xToPx(stationFt, h.maxIdx, xSpan)]]]

(***************************************************************************)
(* Survey station table (app.js 1783-1860, 1977-2078)                      *)
(***************************************************************************)

\* Input changes a behaviour makes after page load.
MaxEdits == 2

\* Rows a station table may hold; a build that needs more is not followed.
MaxStations == 3

\* (runway length, station spacing) the page may load with.  0.001 ft at
\* 0.0004 ft spacing gives stations that coincide once rounded.
SurveyGridSet ==
    { <<Ft(20), Ft(10)>>, <<Ft(30), Ft(15)>>, <<Ft(20), Ft(15)>>,
      <<1000, 400>>, <<0, Ft(10)>> }

\* Math.abs(value) <= tol
WithinTolStrict(value, tol) == Abs(value) < tol

WithinTol(value, tol) == Abs(value) <= tol

\* Number(ft.toFixed(3)): the nearest multiple of 0.001 ft, halves away
\* from zero.
ToFixed3(ft) ==
    IF ft >= 0
    THEN ((ft + (Fixed3Step \div 2)) \div Fixed3Step) * Fixed3Step
    ELSE -((((-ft) + (Fixed3Step \div 2)) \div Fixed3Step) * Fixed3Step)

\* (startFt + lenFt).toFixed(0): the nearest whole foot.
ToFixed0(ft) ==
    IF ft >= 0
    THEN ((ft + (MicroPerFt \div 2)) \div MicroPerFt) * MicroPerFt
    ELSE -((((-ft) + (MicroPerFt \div 2)) \div MicroPerFt) * MicroPerFt)

\* for (let ft = startFt; ft <= startFt + lenFt + 1e-9; ft += stepFt)
\*   stations.push(Number(ft.toFixed(3)))
\* On whole micro-feet the 1e-9 ft slack admits no further value.
SurveyLoopCond(ft, endFt) == ft <= endFt

RECURSIVE SurveyStationsFrom(_, _, _)
SurveyStationsFrom(ft, endFt, stepFt) ==
    IF SurveyLoopCond(ft, endFt)
    THEN <<ToFixed3(ft)>> \o SurveyStationsFrom(ft + stepFt, endFt, stepFt)
    ELSE <<>>

SurveyStations(startFt, lenFt, stepFt) ==
    SurveyStationsFrom(startFt, startFt + lenFt, stepFt)

\* The row buildSurveyStations appends for a station.
NewSurveyRow(ft) ==
    [ft |-> ft, railN |-> 0, railS |-> 0, beamN |-> 0, beamS |-> 0,
     pfN |-> "-", pfS |-> "-", rateN |-> "-", rateS |-> "-"]

EmptySvg(msg) == [kind |-> "empty", msg |-> msg, passN |-> FALSE, passS |-> FALSE]

\* if (lenFt <= 0 || stepFt <= 0)
SurveyConfigError(in) == in.lenFt <= 0 \/ in.stepFt <= 0

SurveyStationCount(in) == (in.lenFt \div in.stepFt) + 1

\* buildSurveyStations: the table, status and chart slots it leaves, from
\* the inputs and the ones it found.
SurveyBuilt(in, table, status, straight, ecc) ==
    IF SurveyConfigError(in)
    THEN [table |-> table,
          status |-> [EmptyStatus EXCEPT !.kind = "invalid"],
          straight |-> straight, ecc |-> ecc]
    ELSE LET stations == SurveyStations(in.startFt, in.lenFt, in.stepFt)
         IN  [table |-> [i \in 1..Len(stations) |-> NewSurveyRow(stations[i])],
              status |-> [EmptyStatus EXCEPT
                             !.kind = "built",
                             !.n = Len(stations),
                             !.startFt = in.startFt,
                             !.endFt = ToFixed0(in.startFt + in.lenFt),
                             !.stepFt = in.stepFt],
              straight |-> EmptySvg("Enter station offsets and click Evaluate & Render."),
              ecc |-> EmptySvg("Eccentricity disabled unless Beam inputs enabled.")]

\* The build is followed when its table fits the bound.
SurveyBuildFits(in) ==
    IF SurveyConfigError(in) THEN TRUE ELSE SurveyStationCount(in) <= MaxStations

\* Page load: init() ends with buildSurveyStations() on the form's values.
InitTable ==
    /\ flow = "table"
    /\ lastOp = "init"
    /\ edits = 0
    /\ CsvIdle
    /\ sw = swIdle
    /\ call = [pc |-> "idle"]
    /\ so = soIdle
    /\ tq = tqIdle
    /\ rq = rqIdle
    /\ LayoutIdle
    /\ \E grid \in SurveyGridSet :
          /\ surveyInputs = [startFt |-> 0, lenFt |-> grid[1], stepFt |-> grid[2],
                             tol |-> 60, rateTol |-> 40, useBeam |-> FALSE]
          /\ LET b == SurveyBuilt(surveyInputs, <<>>, EmptyStatus, NoSvg, NoSvg)
             IN  /\ surveyTable = b.table
                 /\ surveyStatus = b.status
                 /\ straightnessSvg = b.straight
                 /\ eccentricitySvg = b.ecc
    /\ surveyEval = [pc |-> "idle"]
    /\ latestStraightnessChartSvg = NoSvg
    /\ latestEccentricityChartSvg = NoSvg

ApplySurveyBuild(in) ==
    LET b == SurveyBuilt(in, surveyTable, surveyStatus, straightnessSvg,
                         eccentricitySvg)
    IN  /\ surveyTable' = b.table
        /\ surveyStatus' = b.status
        /\ straightnessSvg' = b.straight
        /\ eccentricitySvg' = b.ecc

\* Click on #buildSurveyStations.
BuildSurveyStations ==
    /\ flow = "table"
    /\ SurveyBuildFits(surveyInputs)
    /\ ApplySurveyBuild(surveyInputs)
    /\ lastOp' = "buildSurveyStations"
    /\ UNCHANGED <<flow, sw, csvVars, call, edits, so, tq, rq, layoutVars,
                   surveyInputs, surveyEval, latestStraightnessChartSvg,
                   latestEccentricityChartSvg>>

\* The user changes a numeric input of the survey form.
SetSurveyInput ==
    /\ flow = "table"
    /\ edits < MaxEdits
    /\ \/ \E v \in {0, Ft(5)} : surveyInputs' = [surveyInputs EXCEPT !.startFt = v]
       \/ \E v \in {0, 1000, Ft(20), Ft(30)} : surveyInputs' = [surveyInputs EXCEPT !.lenFt = v]
       \/ \E v \in {-Ft(10), 400, Ft(10), Ft(15)} : surveyInputs' = [surveyInputs EXCEPT !.stepFt = v]
       \/ \E v \in {40, 60} : surveyInputs' = [surveyInputs EXCEPT !.tol = v]
       \/ \E v \in {-8, 40} : surveyInputs' = [surveyInputs EXCEPT !.rateTol = v]
    /\ surveyInputs' # surveyInputs
    /\ edits' = edits + 1
    /\ lastOp' = "input"
    /\ UNCHANGED <<flow, sw, csvVars, call, so, tq, rq, layoutVars, surveyTable,
                   surveyStatus, surveyEval, straightnessSvg, eccentricitySvg,
                   latestStraightnessChartSvg, latestEccentricityChartSvg>>

\* The user changes #surveyUseBeam; its change handler rebuilds the table.
SetSurveyUseBeam ==
    /\ flow = "table"
    /\ edits < MaxEdits
    /\ surveyInputs' = [surveyInputs EXCEPT !.useBeam = ~surveyInputs.useBeam]
    /\ SurveyBuildFits(surveyInputs')
    /\ ApplySurveyBuild(surveyInputs')
    /\ edits' = edits + 1
    /\ lastOp' = "buildSurveyStations"
    /\ UNCHANGED <<flow, sw, csvVars, call, so, tq, rq, layoutVars, surveyEval,
                   latestStraightnessChartSvg, latestEccentricityChartSvg>>

\* The user types a rail offset into a row of the table.
SetSurveyRail ==
    /\ flow = "table"
    /\ edits < MaxEdits
    /\ \E i \in DOMAIN surveyTable :
          \/ \E v \in {-48, 0, 40} :
                surveyTable' = [surveyTable EXCEPT ![i].railN = v]
          \/ \E v \in {0, 48} :
                surveyTable' = [surveyTable EXCEPT ![i].railS = v]
    /\ surveyTable' # surveyTable
    /\ edits' = edits + 1
    /\ lastOp' = "input"
    /\ UNCHANGED <<flow, sw, csvVars, call, so, tq, rq, layoutVars, surveyInputs,
                   surveyStatus, surveyEval, straightnessSvg, eccentricitySvg,
                   latestStraightnessChartSvg, latestEccentricityChartSvg>>

\* collectSurveyTable: the columns read back from the table rows.
collectSurveyTable ==
    [stationFt |-> [i \in DOMAIN surveyTable |-> surveyTable[i].ft],
     railN |-> [i \in DOMAIN surveyTable |-> surveyTable[i].railN],
     railS |-> [i \in DOMAIN surveyTable |-> surveyTable[i].railS],
     beamN |-> [i \in DOMAIN surveyTable |-> surveyTable[i].beamN],
     beamS |-> [i \in DOMAIN surveyTable |-> surveyTable[i].beamS]]

\* const dx = Math.max(1e-6, stationFt[i] - stationFt[i - 1])
SurveyDxMilli(diff) == Max2(Fixed3Step, diff)

SurveyDx(diff) == Max2(1, diff)

\* rate[0] = 0; rate[i] = |y[i] - y[i-1]| * (20 / dx)
SurveyRates(stationFt, y) ==
    [i \in DOMAIN stationFt |->
        IF i = 1
        THEN Rat(0, 1)
        ELSE Rat(Abs(y[i] - y[i - 1]) * Ft(RefDistFt),
                 SurveyDx(stationFt[i] - stationFt[i - 1]))]

\* passAll = passAll && ok, over the rows in order.
AndFoldLast(ok, i, acc) == IF Len(ok) = 0 THEN acc ELSE ok[Len(ok)]

RECURSIVE AndFold(_, _, _)
AndFold(ok, i, acc) ==
    IF i > Len(ok) THEN acc ELSE AndFold(ok, i + 1, acc /\ ok[i])

PassFail(ok) == IF ok THEN "PASS" ELSE "FAIL"

\* Click on #evaluateSurvey.
EvaluateAndRenderSurvey ==
    /\ flow = "table"
    /\ lastOp' = "evaluateAndRenderSurvey"
    /\ LET data == collectSurveyTable
           n == Len(data.stationFt)
       IN  IF n < 2
           THEN /\ surveyStatus' = [EmptyStatus EXCEPT !.kind = "buildFirst"]
                /\ UNCHANGED <<surveyTable, surveyEval, straightnessSvg,
                               eccentricitySvg, latestStraightnessChartSvg,
                               latestEccentricityChartSvg>>
           ELSE LET tol == surveyInputs.tol
                    rateTol == surveyInputs.rateTol
                    rateN == SurveyRates(data.stationFt, data.railN)
                    rateS == SurveyRates(data.stationFt, data.railS)
                    nMagPass == [i \in 1..n |-> WithinTol(data.railN[i], tol)]
                    sMagPass == [i \in 1..n |-> WithinTol(data.railS[i], tol)]
                    nRatePass == [i \in 1..n |-> RatLeq(rateN[i], rateTol)]
                    sRatePass == [i \in 1..n |-> RatLeq(rateS[i], rateTol)]
                    nOK == [i \in 1..n |-> nMagPass[i] /\ nRatePass[i]]
                    sOK == [i \in 1..n |-> sMagPass[i] /\ sRatePass[i]]
                    passNAll == AndFold(nOK, 1, TRUE)
                    passSAll == AndFold(sOK, 1, TRUE)
                    yAbsMax == YAbsMax(Max2(Max2(seriesMaxAbs(data.railN),
                                                 seriesMaxAbs(data.railS)), tol))
                    chart == buildChartSvg("Straightness - Rail (Station-by-Station)",
                                           data.stationFt, <<data.railN, data.railS>>,
                                           -yAbsMax, yAbsMax, ConstantWindow(tol),
                                           passNAll, passSAll)
                    eccN == [i \in 1..n |-> data.railN[i] - data.beamN[i]]
                    eccAbs == YAbsMax(Max2(seriesMaxAbs(eccN), EccDefaultTol))
                    ecc == IF surveyInputs.useBeam
                           THEN buildChartSvg("Runway/Rail Eccentricity - Column Line N",
                                              data.stationFt, <<eccN>>,
                                              -eccAbs, eccAbs,
                                              ConstantWindow(EccDefaultTol), FALSE, FALSE)
                           ELSE EmptySvg("Eccentricity disabled (enable Beam inputs to use).")
                IN  /\ surveyEval' = [pc |-> "done", rateN |-> rateN, rateS |-> rateS,
                                      nMagPass |-> nMagPass, sMagPass |-> sMagPass,
                                      nRatePass |-> nRatePass, sRatePass |-> sRatePass,
                                      passNAll |-> passNAll, passSAll |-> passSAll]
                    /\ surveyTable' =
                          [i \in 1..n |->
                              [surveyTable[i] EXCEPT
                                  !.pfN = PassFail(nOK[i]),
                                  !.pfS = PassFail(sOK[i]),
                                  !.rateN = IF nRatePass[i] THEN "shown" ELSE "red",
                                  !.rateS = IF sRatePass[i] THEN "shown" ELSE "red"]]
                    /\ latestStraightnessChartSvg' = chart
                    /\ straightnessSvg' = latestStraightnessChartSvg'
                    /\ latestEccentricityChartSvg' = ecc
                    /\ eccentricitySvg' = latestEccentricityChartSvg'
                    /\ surveyStatus' = [EmptyStatus EXCEPT
                                           !.kind = "evaluated",
                                           !.passN = passNAll,
                                           !.passS = passSAll]
    /\ UNCHANGED <<flow, sw, csvVars, call, edits, so, tq, rq, layoutVars,
                   surveyInputs>>

NextTable ==
    \/ BuildSurveyStations
    \/ SetSurveyInput
    \/ SetSurveyUseBeam
    \/ SetSurveyRail
    \/ EvaluateAndRenderSurvey

SpecTable == InitTable /\ [][NextTable]_vars

(***************************************************************************)
(* Properties of the survey evaluation                                     *)
(***************************************************************************)

SurveyEvaluated ==
    /\ flow = "table"
    /\ lastOp = "evaluateAndRenderSurvey"
    /\ surveyStatus.kind = "evaluated"

\* Station i of a rail passes both its magnitude and its rate check.
StationPasses(y, rate, i) ==
    /\ Abs(y[i]) <= surveyInputs.tol
    /\ RatLeq(rate[i], surveyInputs.rateTol)

\* C2: after evaluateAndRenderSurvey the aggregate of a rail, as shown in
\* the status line and in the chart's subtitle, is TRUE exactly when every
\* station of that rail passes its magnitude check and its rate check.
C2_AggregateIsConjunction ==
    SurveyEvaluated =>
        LET data == collectSurveyTable
            allN == \A i \in DOMAIN surveyTable :
                        StationPasses(data.railN, surveyEval.rateN, i)
            allS == \A i \in DOMAIN surveyTable :
                        StationPasses(data.railS, surveyEval.rateS, i)
        IN  /\ surveyStatus.passN = allN
            /\ surveyStatus.passS = allS
            /\ surveyEval.passNAll = allN
            /\ surveyEval.passSAll = allS
            /\ latestStraightnessChartSvg.passN = allN
            /\ latestStraightnessChartSvg.passS = allS

\* A table of three stations where the magnitude check of the north rail
\* fails at the middle station only: the north aggregate is FALSE while the
\* south aggregate is TRUE.
C2_Witness ==
    /\ SurveyEvaluated
    /\ Len(surveyTable) = 3
    /\ surveyEval.nMagPass = <<TRUE, FALSE, TRUE>>
    /\ surveyEval.nRatePass[1]
    /\ ~surveyStatus.passN
    /\ surveyStatus.passS

\* The expected rate of station i against station i - 1, with the code's
\* floor of 1e-6 ft on the distance.
PrevStationRate(stationFt, y, i) ==
    LET diff == stationFt[i] - stationFt[i - 1]
    IN  Rat(Abs(y[i] - y[i - 1]) * Ft(RefDistFt), IF diff < 1 THEN 1 ELSE diff)

\* C4 (as amended): the rate at index 0 is 0 and passes when the rate
\* tolerance is not negative; for every later index the rate is
\* abs(value_i - value_{i-1}) * 20 / max(1e-6, station_i - station_{i-1}).
C4_RateAgainstPrevious ==
    SurveyEvaluated =>
        LET data == collectSurveyTable
        IN  /\ surveyEval.rateN[1] = <<0, 1>>
            /\ surveyEval.rateS[1] = <<0, 1>>
            /\ surveyInputs.rateTol >= 0 =>
                  surveyEval.nRatePass[1] /\ surveyEval.sRatePass[1]
            /\ \A i \in 2..Len(surveyTable) :
                  /\ surveyEval.rateN[i] =
                        PrevStationRate(data.stationFt, data.railN, i)
                  /\ surveyEval.rateS[i] =
                        PrevStationRate(data.stationFt, data.railS, i)

\* Two stations that coincide after rounding to 0.001 ft, with different
\* north rail values: the distance used is the floor of 1e-6 ft.
C4_Witness ==
    /\ SurveyEvaluated
    /\ Len(surveyTable) = 3
    /\ surveyTable[1].ft = surveyTable[2].ft
    /\ surveyTable[1].railN # surveyTable[2].railN
    /\ surveyEval.rateN[2] =
          <<Abs(surveyTable[2].railN - surveyTable[1].railN) * Ft(RefDistFt), 1>>

\* C4 (as stated): the rate at index 0 is 0 and passes (for a rate tolerance
\* that is not negative), and every later rate is abs(dv) * 20 divided by
\* the plain station difference, which is then a positive number.
C4_AsStated ==
    SurveyEvaluated =>
        LET data == collectSurveyTable
        IN  /\ surveyEval.rateN[1] = <<0, 1>>
            /\ surveyInputs.rateTol >= 0 => surveyEval.nRatePass[1]
            /\ \A i \in 2..Len(surveyTable) :
                  /\ data.stationFt[i] - data.stationFt[i - 1] > 0
                  /\ surveyEval.rateN[i] =
                        Rat(Abs(data.railN[i] - data.railN[i - 1]) * Ft(RefDistFt),
                            data.stationFt[i] - data.stationFt[i - 1])

\* C8: with start 0 and a length that is an exact multiple of the spacing,
\* the table built by buildSurveyStations holds the stations that
\* stationOffsets returns for the same length and spacing.
C8_SameStationSequence ==
    ( /\ flow = "table"
      /\ lastOp \in {"init", "buildSurveyStations"}
      /\ surveyStatus.kind = "built"
      /\ surveyInputs.startFt = 0
      /\ surveyInputs.lenFt % surveyInputs.stepFt = 0 )
    => collectSurveyTable.stationFt
          = stationOffsets(surveyInputs.lenFt, surveyInputs.stepFt)

\* A table built for 20 ft at 10 ft spacing: 0, 10 and 20 ft.
C8_Witness ==
    /\ flow = "table"
    /\ lastOp = "buildSurveyStations"
    /\ surveyStatus.kind = "built"
    /\ surveyInputs.startFt = 0
    /\ surveyInputs.lenFt = Ft(20)
    /\ surveyInputs.stepFt = Ft(10)
    /\ collectSurveyTable.stationFt = <<0, Ft(10), Ft(20)>>

(***************************************************************************)
(* Survey CSV import and its charts (app.js 570-678, 853-988, 1152-1199)   *)
(*                                                                         *)
(* The text of #surveyCsv is kept as its non-blank lines: the header       *)
(* names, lower-cased, and one sequence of cells per data line.  A cell    *)
(* is the number Number() reads from it, or a cell Number() reads no       *)
(* finite number from.                                                     *)
(***************************************************************************)

Num(v) == [ok |-> TRUE, v |-> v]

\* A cell that is not a finite number ("x", "NaN", "Infinity").
BadCell == [ok |-> FALSE, v |-> 0]

\* The texts a behaviour pastes into #surveyCsv.
CsvTextSet ==
    { \* nothing
      EmptyCsv,
      \* a header line alone
      [headers |-> <<"stationft", "railn", "rails">>, rows |-> <<>>],
      \* no RailS column
      [headers |-> <<"stationft", "railn">>,
       rows |-> << <<Num(Ft(0)), Num(0)>>, <<Num(Ft(20)), Num(40)>> >>],
      \* one usable row of two
      [headers |-> <<"stationft", "railn", "rails">>,
       rows |-> << <<Num(Ft(0)), Num(0), Num(0)>>,
                   <<Num(Ft(20)), BadCell, Num(0)>> >>],
      \* two rows in descending order, both beam columns
      [headers |-> <<"stationft", "railn", "rails", "beamn", "beams">>,
       rows |-> << <<Num(Ft(20)), Num(40), Num(-48), Num(20), Num(0)>>,
                   <<Num(Ft(0)), Num(0), Num(8), Num(0), BadCell>> >>],
      \* three rows out of order, a short row between them, no beam columns
      [headers |-> <<"railn", "stationft", "rails">>,
       rows |-> << <<Num(60), Num(Ft(30)), Num(0)>>,
                   <<Num(8)>>,
                   <<Num(-64), Num(Ft(0)), Num(48)>>,
                   <<Num(20), Num(Ft(20)), Num(-8)>> >>],
      \* the same station twice, BeamN alone
      [headers |-> <<"stationft", "railn", "rails", "beamn">>,
       rows |-> << <<Num(Ft(10)), Num(40), Num(0), Num(40)>>,
                   <<Num(Ft(10)), Num(0), Num(20), Num(0)>> >>],
      \* every measurement 0
      [headers |-> <<"stationft", "railn", "rails", "beamn", "beams">>,
       rows |-> << <<Num(Ft(0)), Num(0), Num(0), Num(0), Num(0)>>,
                   <<Num(Ft(20)), Num(0), Num(0), Num(0), Num(0)>> >>] }

\* #surveyStraightTol: 0, 0.25 in and the default 0.375 in.
CsvTolSet == {0, 40, 60}

\* #eccZones: empty, one zone of tolerance 0.25 in, one of tolerance 0.
CsvZonesSet ==
    { <<>>,
      <<[startFt |-> Ft(0), endFt |-> Ft(50), tolIn |-> 40]>>,
      <<[startFt |-> Ft(0), endFt |-> Ft(50), tolIn |-> 0]>> }

\* parseCsv: fewer than two non-blank lines give no headers and no rows.
parseCsv(text) ==
    IF Len(text.headers) = 0 \/ Len(text.rows) = 0 THEN EmptyCsv ELSE text

\* headers.forEach((h, i) => idx[normalizeHeader(h)] = i): the last column
\* of a name, 0 when there is none.
RECURSIVE HeaderIdxFrom(_, _, _, _)
HeaderIdxFrom(headers, key, i, found) ==
    IF i > Len(headers) THEN found
    ELSE HeaderIdxFrom(headers, key, i + 1, IF headers[i] = key THEN i ELSE found)

\* r[idx[key]]: a line with fewer cells gives undefined, which Number()
\* turns into NaN.
CellAt(r, i) == IF i \in DOMAIN r THEN r[i] ELSE BadCell

\* beamN.push(hasBeamN ? toNum(cell, 0) : null): null, or a number.
BeamEntry(has, cell) ==
    IF ~has THEN [null |-> TRUE, v |-> 0]
    ELSE [null |-> FALSE, v |-> IF cell.ok THEN cell.v ELSE 0]

\* The loop over the rows: the rows whose three required cells are finite,
\* each as one record, in input order.
RECURSIVE SurveyRowsFrom(_, _, _, _)
SurveyRowsFrom(headers, rows, i, acc) ==
    IF i > Len(rows) THEN acc
    ELSE LET r == rows[i]
             st == CellAt(r, HeaderIdxFrom(headers, "stationft", 1, 0))
             rn == CellAt(r, HeaderIdxFrom(headers, "railn", 1, 0))
             rs == CellAt(r, HeaderIdxFrom(headers, "rails", 1, 0))
             bn == HeaderIdxFrom(headers, "beamn", 1, 0)
             bs == HeaderIdxFrom(headers, "beams", 1, 0)
         IN  IF ~st.ok \/ ~rn.ok \/ ~rs.ok
             THEN SurveyRowsFrom(headers, rows, i + 1, acc)
             ELSE SurveyRowsFrom(headers, rows, i + 1,
                     Append(acc, [stationFt |-> st.v, railN |-> rn.v, railS |-> rs.v,
                                  beamN |-> BeamEntry(bn # 0, CellAt(r, bn)),
                                  beamS |-> BeamEntry(bs # 0, CellAt(r, bs))]))

\* order: the row indices sorted by station; Array.prototype.sort is stable.
RECURSIVE InsertByStation(_, _, _, _)
InsertByStation(order, i, stationFt, k) ==
    IF k > Len(order) THEN Append(order, i)
    ELSE IF stationFt[order[k]] > stationFt[i]
         THEN SubSeq(order, 1, k - 1) \o <<i>> \o SubSeq(order, k, Len(order))
         ELSE InsertByStation(order, i, stationFt, k + 1)

RECURSIVE SortOrderFrom(_, _, _)
SortOrderFrom(stationFt, i, order) ==
    IF i > Len(stationFt) THEN order
    ELSE SortOrderFrom(stationFt, i + 1, InsertByStation(order, i, stationFt, 1))

\* A channel left in input order.
sortedIdentity(order, arr) == arr

\* const sorted = (arr) => order.map(i => arr[i])
sorted(order, arr) == [k \in DOMAIN order |-> arr[order[k]]]

\* parseSurveyDataFromTextarea: [threw, msg, data]; data is null when the
\* text has no header or no row.
parseSurveyDataFromTextarea(text) ==
    LET csv == parseCsv(text)
        headers == csv.headers
    IN  IF Len(headers) = 0 \/ Len(csv.rows) = 0
        THEN [threw |-> FALSE, msg |-> "", data |-> NullSurveyData]
        ELSE IF \/ HeaderIdxFrom(headers, "stationft", 1, 0) = 0
                \/ HeaderIdxFrom(headers, "railn", 1, 0) = 0
                \/ HeaderIdxFrom(headers, "rails", 1, 0) = 0
        THEN [threw |-> TRUE,
              msg |-> "CSV must include headers: StationFt, RailN, RailS (BeamN/BeamS optional).",
              data |-> NullSurveyData]
        ELSE LET rows == SurveyRowsFrom(headers, csv.rows, 1, <<>>)
                 order == SortOrderFrom([i \in DOMAIN rows |-> rows[i].stationFt], 1, <<>>)
             IN  IF Len(rows) < 2
                 THEN [threw |-> TRUE,
                       msg |-> "Not enough valid rows parsed. Need at least 2 stations.",
                       data |-> NullSurveyData]
                 ELSE [threw |-> FALSE, msg |-> "",
                       data |->
                         [isNull |-> FALSE,
                          stationFt |-> sorted(order, [i \in DOMAIN rows |-> rows[i].stationFt]),
                          railN |-> sorted(order, [i \in DOMAIN rows |-> rows[i].railN]),
                          railS |-> sorted(order, [i \in DOMAIN rows |-> rows[i].railS]),
                          beamN |-> sorted(order, [i \in DOMAIN rows |-> rows[i].beamN]),
                          beamS |-> sorted(order, [i \in DOMAIN rows |-> rows[i].beamS]),
                          hasBeam |-> HeaderIdxFrom(headers, "beamn", 1, 0) # 0
                                      /\ HeaderIdxFrom(headers, "beams", 1, 0) # 0]]

\* buildStraightnessCharts().svg
buildStraightnessCharts(data, in) ==
    IF data.isNull THEN EmptySvg("No survey data.")
    ELSE LET yAbsMax == YAbsMax(Max2(Max2(seriesMaxAbs(data.railN),
                                          seriesMaxAbs(data.railS)), in.tol))
         IN  buildChartSvg("Straightness - Rail (Station-by-Station)",
                           data.stationFt, <<data.railN, data.railS>>,
                           -yAbsMax, yAbsMax, ConstantWindow(in.tol), FALSE, FALSE)

\* The eccentricity chart drawn without looking for beam values: a null
\* beam entry counts as 0.
buildEccentricityChartUnguarded(data, in) ==
    IF data.isNull THEN EmptySvg("No survey data.")
    ELSE LET yAbsMax == YAbsMax(Max2(seriesMaxAbs(data.railN), EccDefaultTol))
         IN  buildChartSvg("Runway/Rail Eccentricity - Column Line N",
                           data.stationFt, <<data.railN>>, -yAbsMax, yAbsMax,
                           ConstantWindow(EccDefaultTol), FALSE, FALSE)

\* buildEccentricityChart().svg
buildEccentricityChart(data, in) ==
    IF data.isNull THEN EmptySvg("No survey data.")
    ELSE IF ~(\E i \in DOMAIN data.beamN : ~data.beamN[i].null)
    THEN EmptySvg("Eccentricity requires BeamN/BeamS. Provide BeamN & BeamS columns in CSV.")
    ELSE LET eccN == [i \in DOMAIN data.railN |-> data.railN[i] - data.beamN[i].v]
             zones == in.eccZones  \* parseEccZones(): null is <<>>
             tols == [i \in DOMAIN zones |-> zones[i].tolIn]
             maxTol == IF zones # <<>> THEN MaxFrom(tols, 1, tols[1])
                       ELSE EccDefaultTol
             yAbsMax == YAbsMax(Max2(seriesMaxAbs(eccN), maxTol))
         IN  buildChartSvg("Runway/Rail Eccentricity - Column Line N",
                           data.stationFt, <<eccN>>, -yAbsMax, yAbsMax,
                           IF zones # <<>> THEN ZonedWindow(zones)
                           ELSE ConstantWindow(EccDefaultTol), FALSE, FALSE)

CsvStatus(kind, n, hasBeam, msg) ==
    [kind |-> kind, n |-> n, hasBeam |-> hasBeam, msg |-> msg]

\* el.outerHTML = svg on the element init() looked up.  init() ends by
\* assigning outerHTML once, which replaces the element in the document; the
\* reference the handlers hold is then an element without a parent, and
\* assigning its outerHTML changes nothing in the document.
SetOuterHTML(attached, shown, svg) == IF attached THEN svg ELSE shown

\* renderSurveyCharts with surveyData = data and the form values in
renderSurveyCharts(data, in) ==
    /\ latestStraightnessChartSvg' = buildStraightnessCharts(data, in)
    /\ straightnessSvg' = SetOuterHTML(FALSE, straightnessSvg, latestStraightnessChartSvg')
    /\ latestEccentricityChartSvg' = buildEccentricityChart(data, in)
    /\ eccentricitySvg' = SetOuterHTML(FALSE, eccentricitySvg, latestEccentricityChartSvg')
    /\ surveyStatus' = IF data.isNull THEN CsvStatus("notParsed", 0, FALSE, "")
                       ELSE CsvStatus("parsed", Len(data.stationFt), data.hasBeam, "")

\* Page load: surveyData = null, and init() ends by putting the placeholder
\* in both chart slots.
InitCsv ==
    /\ flow = "csv"
    /\ lastOp = "init"
    /\ edits = 0
    /\ CsvIdle
    /\ sw = swIdle
    /\ call = [pc |-> "idle"]
    /\ so = soIdle
    /\ tq = tqIdle
    /\ rq = rqIdle
    /\ LayoutIdle
    /\ \E tol \in CsvTolSet :
          surveyInputs = [tol |-> tol, rateTol |-> 40, eccZones |-> <<>>]
    /\ surveyTable = <<>>
    /\ surveyStatus = CsvStatus("none", 0, FALSE, "")
    /\ surveyEval = [pc |-> "idle"]
    /\ straightnessSvg = SetOuterHTML(TRUE, NoSvg, EmptySvg("No survey data."))
    /\ eccentricitySvg = SetOuterHTML(TRUE, NoSvg, EmptySvg("No survey data."))
    /\ latestStraightnessChartSvg = NoSvg
    /\ latestEccentricityChartSvg = NoSvg

\* The user replaces the text of #surveyCsv.
SetSurveyCsv ==
    /\ flow = "csv"
    /\ edits < MaxEdits
    /\ \E text \in CsvTextSet : surveyCsv' = text
    /\ surveyCsv' # surveyCsv
    /\ edits' = edits + 1
    /\ lastOp' = "input"
    /\ UNCHANGED <<flow, sw, surveyData, parsedCsv, call, so, tq,
                   rq, layoutVars, tableVars>>

\* Click on #parseSurvey.
ParseSurvey ==
    /\ flow = "csv"
    /\ LET p == parseSurveyDataFromTextarea(surveyCsv)
       IN  IF p.threw
           THEN /\ surveyData' = NullSurveyData
                /\ parsedCsv' = parsedCsv
                /\ surveyStatus' = CsvStatus("parseError", 0, FALSE, p.msg)
                /\ straightnessSvg' = SetOuterHTML(FALSE, straightnessSvg, EmptySvg(p.msg))
                /\ eccentricitySvg' = SetOuterHTML(FALSE, eccentricitySvg, EmptySvg(p.msg))
                /\ lastOp' = "parseThrew"
                /\ UNCHANGED <<latestStraightnessChartSvg, latestEccentricityChartSvg>>
           ELSE IF p.data.isNull
           THEN /\ surveyData' = NullSurveyData
                /\ parsedCsv' = parsedCsv
                /\ surveyStatus' = CsvStatus("noData", 0, FALSE, "")
                /\ straightnessSvg' =
                      SetOuterHTML(FALSE, straightnessSvg, EmptySvg("No survey data."))
                /\ eccentricitySvg' =
                      SetOuterHTML(FALSE, eccentricitySvg, EmptySvg("No survey data."))
                /\ lastOp' = "parseEmpty"
                /\ UNCHANGED <<latestStraightnessChartSvg, latestEccentricityChartSvg>>
           ELSE /\ surveyData' = p.data
                /\ parsedCsv' = surveyCsv
                /\ renderSurveyCharts(p.data, surveyInputs)
                /\ lastOp' = "parsed"
    /\ UNCHANGED <<flow, sw, surveyCsv, call, edits, so, tq, rq,
                   layoutVars, surveyInputs, surveyTable, surveyEval>>

\* Click on #clearSurvey.
ClearSurvey ==
    /\ flow = "csv"
    /\ surveyData' = NullSurveyData
    /\ surveyCsv' = EmptyCsv
    /\ surveyStatus' = CsvStatus("cleared", 0, FALSE, "")
    /\ straightnessSvg' = SetOuterHTML(FALSE, straightnessSvg, EmptySvg("No survey data."))
    /\ eccentricitySvg' = SetOuterHTML(FALSE, eccentricitySvg, EmptySvg("No survey data."))
    /\ lastOp' = "clear"
    /\ UNCHANGED <<flow, sw, parsedCsv, call, edits, so, tq, rq,
                   layoutVars, surveyInputs, surveyTable, surveyEval,
                   latestStraightnessChartSvg, latestEccentricityChartSvg>>

\* change on #surveyStraightTol or #eccZones: if (surveyData)
\* renderSurveyCharts().
SetSurveyTolerance ==
    /\ flow = "csv"
    /\ edits < MaxEdits
    /\ \/ \E v \in CsvTolSet : surveyInputs' = [surveyInputs EXCEPT !.tol = v]
       \/ \E z \in CsvZonesSet : surveyInputs' = [surveyInputs EXCEPT !.eccZones = z]
    /\ surveyInputs' # surveyInputs
    /\ edits' = edits + 1
    /\ lastOp' = "tolerance"
    /\ IF surveyData.isNull
       THEN UNCHANGED <<surveyStatus, straightnessSvg, eccentricitySvg,
                        latestStraightnessChartSvg, latestEccentricityChartSvg>>
       ELSE renderSurveyCharts(surveyData, surveyInputs')
    /\ UNCHANGED <<flow, sw, csvVars, call, so, tq, rq,
                   layoutVars, surveyTable, surveyEval>>

NextCsv ==
    \/ SetSurveyCsv
    \/ ParseSurvey
    \/ ClearSurvey
    \/ SetSurveyTolerance

SpecCsv == InitCsv /\ [][NextCsv]_vars

(***************************************************************************)
(* The formatter and the chart builders called on their own arguments      *)
(***************************************************************************)

\* The lines a behaviour types into #eccZones, each split at its commas and
\* trimmed: a blank line, two parts, a part that is not a number, a zone, a
\* zone with a negative tolerance, a zone whose range runs backwards, a zone
\* followed by a fourth part, and "50,,0.5", whose empty part Number reads
\* as 0.
ZoneLineSet ==
    { <<>>,
      <<Num(Ft(0)), Num(Ft(50))>>,
      <<Num(Ft(0)), BadCell, Num(40)>>,
      <<Num(Ft(0)), Num(Ft(50)), Num(40)>>,
      <<Num(Ft(0)), Num(Ft(100)), Num(-40)>>,
      <<Num(Ft(100)), Num(Ft(50)), Num(20)>>,
      <<Num(Ft(50)), Num(Ft(100)), Num(80), Num(160)>>,
      <<Num(Ft(50)), Num(0), Num(80)>> }

MaxZoneLines == 2

\* Segments of a layout whose cross-level series is collected on its own.
MaxSegments == 3

\* The loop body of parseZones from line i on: fewer than three parts or a
\* part that is not finite skips the line; anything else is pushed.
RECURSIVE ZonesFrom(_, _)
ZonesFrom(lines, i) ==
    IF i > Len(lines) THEN <<>>
    ELSE LET parts == lines[i]
         IN  IF Len(parts) < 3 THEN ZonesFrom(lines, i + 1)
             ELSE IF parts[1].ok /\ parts[2].ok /\ parts[3].ok
             THEN <<[startFt |-> parts[1].v, endFt |-> parts[2].v,
                     tolIn |-> parts[3].v]>> \o ZonesFrom(lines, i + 1)
             ELSE ZonesFrom(lines, i + 1)

\* parseZones(text): .filter(Boolean) drops the blank lines; null (no zone)
\* is the empty sequence.
parseZones(text) == ZonesFrom(SelectSeq(text, LAMBDA line : Len(line) > 0), 1)

\* parseEccZones(), reading the #eccZones textarea: the same loop.
parseEccZones(text) == ZonesFrom(SelectSeq(text, LAMBDA line : Len(line) > 0), 1)

\* Arguments of the chart builders: buildChartSvg on a station list (empty,
\* one station, two stations, one position twice) with one channel of that
\* length or with no channel; buildStraightnessCharts and
\* buildEccentricityChart on surveyData = null and on every survey the
\* texts above parse to.
ChartCallSet ==
    {[pc |-> "args", fn |-> "buildChartSvg", stationFt |-> st,
      series |-> IF channels = 0 THEN <<>> ELSE <<[i \in DOMAIN st |-> y]>>,
      yMax |-> QuarterPerIn, tolWindow |-> w] :
        st \in {<<>>, <<Ft(10)>>, <<Ft(0), Ft(20)>>, <<Ft(10), Ft(10)>>},
        channels \in {0, 1}, y \in {0, 40},
        w \in {ConstantWindow(60), ZonedWindow(<<[startFt |-> Ft(0), endFt |-> Ft(10),
                                                  tolIn |-> 40]>>)}}
    \cup
    {[pc |-> "args", fn |-> fn, data |-> d,
      in |-> [tol |-> tol, rateTol |-> 40, eccZones |-> z]] :
        fn \in {"buildStraightnessCharts", "buildEccentricityChart"},
        d \in {NullSurveyData}
               \cup {parseSurveyDataFromTextarea(t).data : t \in CsvTextSet},
        tol \in CsvTolSet, z \in CsvZonesSet}

\* A caller holds the arguments of one call.
InitCall ==
    /\ flow = "call"
    /\ lastOp = "init"
    /\ edits = 0
    /\ CsvIdle
    /\ sw = swIdle
    /\ so = soIdle
    /\ tq = tqIdle
    /\ rq = rqIdle
    /\ LayoutIdle
    /\ TableIdle
    /\ \/ \E v \in FractionValueSet :
             call = [pc |-> "args", fn |-> "nearestFractionStringInches", valueIn |-> v]
       \/ call \in ChartCallSet
       \/ \E fn \in {"parseZones", "parseEccZones"}, text \in UNION {[1..k -> ZoneLineSet] : k \in 0..MaxZoneLines} :
             call = [pc |-> "args", fn |-> fn, text |-> text]
       \/ \E n \in 1..MaxSegments, spacing \in {Ft(20), Ft(30)} :
          \E a \in [1..n -> {-Ft(100), Ft(30), Ft(60)}] :
             call = [pc |-> "args", fn |-> "collectCrossLevelSeries",
                     design |-> [g \in 1..n |-> <<a[g], Ft(60)>>],
                     spacing |-> spacing]

\* nearestFractionStringInches(valueIn) returns.
FormatFraction ==
    /\ flow = "call"
    /\ call.pc = "args"
    /\ call.fn = "nearestFractionStringInches"
    /\ call' = [pc |-> "done", fn |-> call.fn, valueIn |-> call.valueIn,
                out |-> nearestFractionStringInches(call.valueIn)]
    /\ lastOp' = "nearestFractionStringInches"
    /\ UNCHANGED <<flow, sw, csvVars, edits, so, tq, rq, layoutVars,
                   tableVars>>

\* A chart builder returns its document.
BuildChart ==
    /\ flow = "call"
    /\ call.pc = "args"
    /\ call.fn \in {"buildChartSvg", "buildStraightnessCharts", "buildEccentricityChart"}
    /\ call' = [pc |-> "done", fn |-> call.fn, args |-> call,
                out |-> IF call.fn = "buildChartSvg"
                        THEN buildChartSvg("", call.stationFt, call.series, -call.yMax,
                                           call.yMax, call.tolWindow, FALSE, FALSE)
                        ELSE IF call.fn = "buildStraightnessCharts"
                        THEN buildStraightnessCharts(call.data, call.in)
                        ELSE buildEccentricityChart(call.data, call.in)]
    /\ lastOp' = call.fn
    /\ UNCHANGED <<flow, sw, csvVars, edits, so, tq, rq, layoutVars,
                   tableVars>>

\* A zone parser returns its table.
ParseZones ==
    /\ flow = "call"
    /\ call.pc = "args"
    /\ call.fn \in {"parseZones", "parseEccZones"}
    /\ call' = [pc |-> "done", fn |-> call.fn, text |-> call.text,
                out |-> IF call.fn = "parseZones" THEN parseZones(call.text)
                        ELSE parseEccZones(call.text)]
    /\ lastOp' = call.fn
    /\ UNCHANGED <<flow, sw, csvVars, edits, so, tq, rq, layoutVars,
                   tableVars>>

(***************************************************************************)
(* Layout builder and compliance run (app.js 194-456, 1093-1134)           *)
(*                                                                         *)
(* An input of #layoutContainer is named by <<kind, key, segment, offset>>:*)
(*   <<"design_distance", side, seg, 0>>   `${side}_design_distance_${seg}`*)
(*   <<"actual_distance", side, seg, 0>>   `${side}_actual_distance_${seg}`*)
(*   <<"station", side, seg, off>>   `${side}_segment_${seg}_station_${off}`*)
(*   <<"station", "cross", seg, off>>    `cross_segment_${seg}_station_${off}`*)
(*   <<"tol", name, 0, 0>>                 `${name}`                       *)
(* Distances are in micro-feet, elevations and tolerances in 1/160 in.     *)
(* The layout part and the survey-table part of the page share no state; a *)
(* behaviour exercises one of them.                                        *)
(***************************************************************************)

LayoutColumnsSet == {1, 2}

LayoutSpacingSet == {-Ft(30), 0, Ft(30)}

\* sideConfig(): the keys of the two sides, in order.
sideConfig == <<"sideA", "sideB">>

\* for (let segment = 1; segment < columns; segment += 1)
Segments(columns) == [i \in 1..(columns - 1) |-> i]

RECURSIVE Flatten(_)
Flatten(ss) == IF ss = <<>> THEN <<>> ELSE Head(ss) \o Flatten(Tail(ss))

\* toNum(document.getElementById(id)?.value, fallback)
FieldValue(f, id, fallback) == IF id \in DOMAIN f THEN f[id] ELSE fallback

DesignId(key, seg) == <<"design_distance", key, seg, 0>>
ActualId(key, seg) == <<"actual_distance", key, seg, 0>>
StationId(key, seg, offset) == <<"station", key, seg, offset>>
TolId(name) == <<"tol", name, 0, 0>>

\* The inputs buildLayout creates for the given columns and spacing, with
\* their initial values.
LayoutFields(columns, spacing) ==
    LET segs == 1..(columns - 1)
        distIds == {DesignId(k, g) : k \in Range(sideConfig), g \in segs}
                   \cup {ActualId(k, g) : k \in Range(sideConfig), g \in segs}
        f1 == [id \in distIds |-> Ft(60)]
        design(k, g) == FieldValue(f1, DesignId(k, g), Ft(60))
        sideIds == UNION {{StationId(k, g, o) :
                              o \in Range(stationOffsets(design(k, g), spacing))} :
                          k \in Range(sideConfig), g \in segs}
        crossIds == UNION {{StationId("cross", g, o) :
                              o \in Range(stationOffsets(
                                      Min2(design("sideA", g), design("sideB", g)),
                                      spacing))} :
                           g \in segs}
        tolIds == {TolId("columnDistanceTol"), TolId("baselineTol"),
                   TolId("crossLevelTol")}
    IN  [id \in distIds \cup sideIds \cup crossIds \cup tolIds |->
            IF id \in distIds THEN Ft(60)
            ELSE IF id = TolId("columnDistanceTol") THEN 40
            ELSE IF id = TolId("baselineTol") THEN 20
            ELSE IF id = TolId("crossLevelTol") THEN 60
            ELSE 0]

\* if (columns < 2 || measuredStationDistance <= 0)
LayoutConfigError(columns, spacing) == columns < 2 \/ spacing <= 0

\* buildLayout: layoutContainer.innerHTML = "" comes first, the check of
\* the inputs second.
LayoutBuilt(columns, spacing) ==
    IF LayoutConfigError(columns, spacing)
    THEN [fields |-> EmptyFields,
          summary |-> [EmptySummary EXCEPT !.kind = "layoutError"]]
    ELSE [fields |-> LayoutFields(columns, spacing),
          summary |-> [EmptySummary EXCEPT !.kind = "layoutBuilt"]]

\* Page load: init() ends with buildLayout() on the form's values.
InitLayout ==
    /\ flow = "layout"
    /\ lastOp = "init"
    /\ edits = 0
    /\ CsvIdle
    /\ sw = swIdle
    /\ call = [pc |-> "idle"]
    /\ so = soIdle
    /\ tq = tqIdle
    /\ rq = rqIdle
    /\ TableIdle
    /\ columnsInput \in LayoutColumnsSet
    /\ spacingInput \in LayoutSpacingSet
    /\ fields = LayoutBuilt(columnsInput, spacingInput).fields
    /\ summary = LayoutBuilt(columnsInput, spacingInput).summary
    /\ resultBody = <<>>
    /\ suggestionList = <<>>
    /\ latestRows = <<>>
    /\ latestCrossLevelDiagramSvg = [kind |-> "none", pts |-> <<>>]

\* The page answers events only while no handler is running.
PageIdle == flow = "layout" /\ so.pc = "idle"

\* Click on #buildLayout.
BuildLayout ==
    /\ PageIdle
    /\ fields' = LayoutBuilt(columnsInput, spacingInput).fields
    /\ summary' = LayoutBuilt(columnsInput, spacingInput).summary
    /\ lastOp' = "buildLayout"
    /\ UNCHANGED <<flow, sw, csvVars, call, edits, so, tq, rq, tableVars,
                   columnsInput, spacingInput, resultBody, suggestionList,
                   latestRows, latestCrossLevelDiagramSvg>>

\* The user changes #columnsPerSide or #measuredStationDistance.
SetLayoutInput ==
    /\ PageIdle
    /\ edits < MaxEdits
    /\ \/ /\ columnsInput' \in LayoutColumnsSet \ {columnsInput}
          /\ UNCHANGED spacingInput
       \/ /\ spacingInput' \in LayoutSpacingSet \ {spacingInput}
          /\ UNCHANGED columnsInput
    /\ edits' = edits + 1
    /\ lastOp' = "input"
    /\ UNCHANGED <<flow, sw, csvVars, call, so, tq, rq, tableVars, fields,
                   summary, resultBody, suggestionList, latestRows,
                   latestCrossLevelDiagramSvg>>

\* The values the user may type into an input of the layout.
LayoutFieldValues(id) ==
    IF id[1] = "design_distance" THEN {Ft(30), Ft(60), Ft(90)}
    ELSE IF id[1] = "actual_distance" THEN {Ft(60), Ft(61)}
    ELSE IF id[1] = "station" /\ id[2] = "cross" THEN {-64, 0, 60}
    ELSE IF id[1] = "station" THEN {-24, 0, 20}
    ELSE {}

\* The user changes an input of #layoutContainer.
SetLayoutField ==
    /\ PageIdle
    /\ edits < MaxEdits
    /\ \E id \in DOMAIN fields :
          \E v \in LayoutFieldValues(id) \ {fields[id]} :
             fields' = [fields EXCEPT ![id] = v]
    /\ edits' = edits + 1
    /\ lastOp' = "input"
    /\ UNCHANGED <<flow, sw, csvVars, call, so, tq, rq, tableVars, columnsInput,
                   spacingInput, summary, resultBody, suggestionList,
                   latestRows, latestCrossLevelDiagramSvg>>

\* value.toFixed(3) of a value in 1/160 in, as thousandths of an inch.
Fixed3In(v) == (v * 25 + 2) \div 4

\* value.toFixed(3) of a value in micro-inches, as thousandths of an inch.
Fixed3MicroIn(u) == (u + 500) \div 1000

\* One micro-foot is 12 micro-inches; 1/160 in is 6250 micro-inches.
InPerFt == 12
MicroInPerUnit == 6250

\* The profile checks evaluated on the first run only.
ProfileRowsOnce ==
    IF latestRows # <<>> THEN <<>>
    ELSE << [check |-> <<"span deviation", "profile", 0, 0>>,
             measuredText |-> Abs(1200180 - 1200000), allowedText |-> 250,
             pass |-> Abs(1200180 - 1200000) <= 250,
             reference |-> "CMAA 70/74 + TR-13 practice"] >>

\* The profile's checks on the form's default values (thousandths of an
\* inch): span 1200 / 1200.18 / 0.25 and runout 0.21 / 0.25.
ProfileRows ==
    << [check |-> <<"span deviation", "profile", 0, 0>>,
        measuredText |-> Abs(1200180 - 1200000), allowedText |-> 250,
        pass |-> Abs(1200180 - 1200000) <= 250,
        reference |-> "CMAA 70/74 + TR-13 practice"],
       [check |-> <<"straightness", "profile", 0, 0>>,
        measuredText |-> Abs(210), allowedText |-> 250,
        pass |-> Abs(210) <= 250,
        reference |-> "TR-13 straightness check (field quick check)"] >>

\* The distance row and the baseline rows of one segment of one side.
SideRows(f, key, seg, spacing) ==
    LET designDistance == FieldValue(f, DesignId(key, seg), 0)
        actualDistance == FieldValue(f, ActualId(key, seg), 0)
        columnDistanceTol == FieldValue(f, TolId("columnDistanceTol"), 40)
        baselineTol == FieldValue(f, TolId("baselineTol"), 20)
        distanceDeviationIn == Abs(actualDistance - designDistance) * InPerFt
        offsets == stationOffsets(designDistance, spacing)
    IN  << [check |-> <<"distance check", key, seg, 0>>,
            measuredText |-> Fixed3MicroIn(distanceDeviationIn),
            allowedText |-> Fixed3In(columnDistanceTol),
            pass |-> distanceDeviationIn <= columnDistanceTol * MicroInPerUnit,
            reference |-> "TR-13 column line distance / verification"] >>
        \o [i \in DOMAIN offsets |->
              LET v == FieldValue(f, StationId(key, seg, offsets[i]), 0)
              IN  [check |-> <<"baseline check", key, seg, offsets[i]>>,
                   measuredText |-> Fixed3In(Abs(v)),
                   allowedText |-> Fixed3In(baselineTol),
                   pass |-> WithinTol(v, baselineTol),
                   reference |-> "TR-13 baseline elevation check (TOP OF RAIL)"]]

\* Math.min(sideADesignDistance, sideBDesignDistance)
CrossSegmentLen(f, seg) ==
    Min2(FieldValue(f, DesignId("sideA", seg), 0),
         FieldValue(f, DesignId("sideB", seg), 0))

\* The cross-level rows of one segment.
CrossRows(f, seg, spacing) ==
    LET crossLevelTol == FieldValue(f, TolId("crossLevelTol"), 60)
        offsets == stationOffsets(CrossSegmentLen(f, seg), spacing)
    IN  [i \in DOMAIN offsets |->
           LET v == FieldValue(f, StationId("cross", seg, offsets[i]), 0)
           IN  [check |-> <<"cross-level", "cross", seg, offsets[i]>>,
                measuredText |-> Fixed3In(Abs(v)),
                allowedText |-> Fixed3In(crossLevelTol),
                pass |-> WithinTol(v, crossLevelTol),
                reference |-> "TR-13 cross-level tolerance (TOP OF RAIL to TOP OF RAIL)"]]

\* The same rows with the cross-level rows ahead of the side rows.
evaluateElevationRowsCrossFirst(f, columns, spacing) ==
    LET segs == Segments(columns)
    IN  Flatten([g \in DOMAIN segs |-> CrossRows(f, segs[g], spacing)])
        \o Flatten([k \in DOMAIN sideConfig |->
                      Flatten([g \in DOMAIN segs |->
                                 SideRows(f, sideConfig[k], segs[g], spacing)])])

\* evaluateElevationRows: per side and segment the distance row and the
\* baseline rows, then the cross-level rows.
evaluateElevationRows(f, columns, spacing) ==
    LET segs == Segments(columns)
    IN  Flatten([k \in DOMAIN sideConfig |->
                   Flatten([g \in DOMAIN segs |->
                              SideRows(f, sideConfig[k], segs[g], spacing)])])
        \o Flatten([g \in DOMAIN segs |-> CrossRows(f, segs[g], spacing)])

\* suggestionForRow: chosen by the words of the row's check name.
suggestionForRow(row) ==
    IF row.check[1] = "distance check" THEN "Verify column plumbness"
    ELSE IF row.check[1] = "baseline check" THEN "Adjust rail seat elevation"
    ELSE IF row.check[1] = "cross-level" THEN "Correct cross-level"
    ELSE IF row.check[1] = "span deviation" THEN "Reconfirm runway gauge"
    ELSE IF row.check[1] = "straightness" THEN "Check beam alignment"
    ELSE "Review this failed item"

RowFails(row) == ~row.pass

RowPasses(row) == row.pass

\* renderSuggestions: one item per failed row, or the all-passed item.
renderSuggestions(rows) ==
    LET failures == SelectSeq(rows, RowFails)
    IN  IF Len(failures) = 0
        THEN << [check |-> <<"none", "", 0, 0>>,
                 suggestion |-> "All checks passed"] >>
        ELSE [i \in DOMAIN failures |->
                [check |-> failures[i].check,
                 suggestion |-> suggestionForRow(failures[i])]]

\* cumulativeFt before the given segment.
RECURSIVE CumulativeFt(_, _)
CumulativeFt(f, seg) ==
    IF seg <= 1 THEN 0
    ELSE CumulativeFt(f, seg - 1) + CrossSegmentLen(f, seg - 1)

\* The series laid out over side A's design distances alone.
collectCrossLevelSeriesSideA(f, columns, spacing) ==
    LET segs == Segments(columns)
        lenA(seg) == FieldValue(f, DesignId("sideA", seg), 0)
        segPts(seg) ==
            LET offsets == stationOffsets(lenA(seg), spacing)
            IN  [i \in DOMAIN offsets |->
                   [stationFt |-> CumulativeFt(f, seg) + offsets[i],
                    valueIn |-> FieldValue(f, StationId("cross", seg, offsets[i]), 0),
                    segment |-> seg,
                    localOffsetFt |-> offsets[i]]]
    IN  Flatten([g \in DOMAIN segs |-> segPts(segs[g])])

\* collectCrossLevelSeries
collectCrossLevelSeries(f, columns, spacing) ==
    LET segs == Segments(columns)
        segPts(seg) ==
            LET offsets == stationOffsets(CrossSegmentLen(f, seg), spacing)
            IN  [i \in DOMAIN offsets |->
                   [stationFt |-> CumulativeFt(f, seg) + offsets[i],
                    valueIn |-> FieldValue(f, StationId("cross", seg, offsets[i]), 0),
                    segment |-> seg,
                    localOffsetFt |-> offsets[i]]]
    IN  Flatten([g \in DOMAIN segs |-> segPts(segs[g])])

\* The failing flag taken from the value as the drawing prints it.
DiagramFailsRounded(valueIn, tol) ==
    NearestFractionFrom(Abs(valueIn), 1, fracMap[1]).val > tol

\* const fails = pts.map(p => Math.abs(p.valueIn) > tol)
DiagramFails(valueIn, tol) == Abs(valueIn) > tol

\* The callout naming the whole value instead of the excess.
correctionTextOfValue(v, tol) ==
    [drawn |-> Abs(v) > tol, s |-> nearestFractionStringInches(Abs(v))]

\* correctionText(v): "V+" and the nearest fraction of the amount out of
\* tolerance, or "" (not drawn) when nothing is out of tolerance.
correctionText(v, tol) ==
    LET req == Max2(0, Abs(v) - tol)
    IN  IF req > 0 THEN [drawn |-> TRUE, s |-> nearestFractionStringInches(req)]
        ELSE [drawn |-> FALSE, s |-> ""]

\* fails.indexOf(true), 0 for -1.
indexOf(fails) ==
    IF \E i \in DOMAIN fails : fails[i]
    THEN CHOOSE i \in DOMAIN fails : fails[i] /\ \A j \in DOMAIN fails : fails[j] => i <= j
    ELSE 0

\* The first index of true in place of the last.
lastIndexOfAsFirst(fails) == indexOf(fails)

\* fails.lastIndexOf(true), 0 for -1.
lastIndexOf(fails) ==
    IF \E i \in DOMAIN fails : fails[i]
    THEN CHOOSE i \in DOMAIN fails : fails[i] /\ \A j \in DOMAIN fails : fails[j] => i >= j
    ELSE 0

\* const spanFt = Math.max(1, maxFt - minFt)
DiagramSpanFt(minFt, maxFt) == Max2(Ft(1), maxFt - minFt)

\* xForFt(ft) = marginL + ((ft - minFt) / spanFt) * plotW, kept as the share
\* (ft - minFt) / spanFt of the plot width.
xForFt(ft, minFt, spanFt) == Rat(ft - minFt, spanFt)

\* buildCrossLevelDiagramSvgString, by what the drawing shows: per point
\* its position, printed value, box colour and callout, and the bracket
\* (indices are 0 when no point fails).
buildCrossLevelDiagramSvgString(f, columns, spacing) ==
    LET tol == FieldValue(f, TolId("crossLevelTol"), 60)
        pts == collectCrossLevelSeries(f, columns, spacing)
        station == [i \in DOMAIN pts |-> pts[i].stationFt]
        minFt == MinFrom(station, 1, station[1])
        maxFt == MaxFrom(station, 1, station[1])
        spanFt == DiagramSpanFt(minFt, maxFt)
        fails == [i \in DOMAIN pts |-> DiagramFails(pts[i].valueIn, tol)]
        firstFailIdx == indexOf(fails)
        lastFailIdx == lastIndexOf(fails)
    IN  IF Len(pts) = 0
        THEN [kind |-> "empty", msg |-> "No cross-level data available to draw.",
              pts |-> <<>>, fails |-> <<>>, tol |-> tol,
              firstFailIdx |-> 0, lastFailIdx |-> 0]
        ELSE [kind |-> "diagram", msg |-> "", pts |-> pts, fails |-> fails, tol |-> tol,
              firstFailIdx |-> firstFailIdx,
              lastFailIdx |-> lastFailIdx,
              spanFt |-> spanFt,
              bracket |-> IF firstFailIdx # 0
                          THEN [drawn |-> TRUE,
                                x1 |-> xForFt(station[firstFailIdx], minFt, spanFt),
                                x2 |-> xForFt(station[lastFailIdx], minFt, spanFt)]
                          ELSE [drawn |-> FALSE, x1 |-> <<0, 1>>, x2 |-> <<0, 1>>],
              marks |-> [i \in DOMAIN pts |->
                           LET corr == correctionText(pts[i].valueIn, tol)
                           IN  [x |-> xForFt(station[i], minFt, spanFt),
                                valueLabel |-> nearestFractionStringInches(Abs(pts[i].valueIn)),
                                boxStroke |-> IF fails[i] THEN "red" ELSE "black",
                                callout |-> IF fails[i] /\ corr.drawn
                                            THEN corr ELSE [drawn |-> FALSE, s |-> ""]]]]

\* The stationOffsets calls of a compliance run, in call order:
\* evaluateElevationRows' side loops, then its cross-level loop.
ComplianceCalls(f, columns, spacing) ==
    LET segs == Segments(columns)
    IN  Flatten([k \in DOMAIN sideConfig |->
                   [g \in DOMAIN segs |->
                       <<FieldValue(f, DesignId(sideConfig[k], segs[g]), 0), spacing>>]])
        \o [g \in DOMAIN segs |-> <<CrossSegmentLen(f, segs[g]), spacing>>]

CallDiverges(c) == StationOffsetsDiverges(c[1], c[2])

\* Click on #runCheck.  A run whose stationOffsets calls all return is one
\* step.  Otherwise the handler enters the first call that does not return
\* and the page stays in its loop; nothing has been written yet.
RunCompliance ==
    /\ PageIdle
    /\ LET calls == ComplianceCalls(fields, columnsInput, spacingInput)
           stuck == SelectSeq(calls, CallDiverges)
       IN  IF Len(stuck) > 0
           THEN /\ so' = StationOffsetsEnter(stuck[1][1], stuck[1][2])
                /\ lastOp' = "stationOffsets"
                /\ UNCHANGED <<summary, resultBody, suggestionList, latestRows,
                               latestCrossLevelDiagramSvg>>
           ELSE LET rows == ProfileRows
                            \o evaluateElevationRows(fields, columnsInput, spacingInput)
                IN  /\ latestRows' = rows
                    /\ suggestionList' = renderSuggestions(rows)
                    /\ resultBody' = rows
                    /\ summary' = [kind |-> "result",
                                   passed |-> Len(SelectSeq(rows, RowPasses)),
                                   total |-> Len(rows)]
                    /\ latestCrossLevelDiagramSvg' =
                          buildCrossLevelDiagramSvgString(fields, columnsInput,
                                                          spacingInput)
                    /\ lastOp' = "runCompliance"
                    /\ UNCHANGED so
    /\ UNCHANGED <<flow, sw, csvVars, call, edits, tq, rq, tableVars, columnsInput,
                   spacingInput, fields>>

NextLayout ==
    \/ BuildLayout
    \/ SetLayoutInput
    \/ SetLayoutField
    \/ RunCompliance
    \/ StationOffsetsStep

SpecLayout == InitLayout /\ [][NextLayout]_vars

(***************************************************************************)
(* The service worker (sw.js; unnamed/part_000 is the build before it)     *)
(***************************************************************************)

CACHE_NAME(build) == IF build = "sw.js" THEN "tr13-pwa-v2" ELSE "tr13-pwa-v1"

ASSETS(build) ==
    IF build = "sw.js"
    THEN <<"./index.html", "./app.js", "./style.css", "./manifest.webmanifest">>
    ELSE <<"./", "./index.html", "./app.js", "./style.css", "./manifest.webmanifest">>

\* Cache storage as the worker finds it: caches of the origin that an
\* earlier build or another script left behind.
SwStaleCaches(build) ==
    [n \in {CACHE_NAME(IF build = "sw.js" THEN "part_000" ELSE "sw.js"), "fonts"} |->
        IF n = "fonts" THEN {"https://cdn.example/lib.js"}
        ELSE {"./index.html", "./app.js"}]

\* The requests a controlled page makes.
SwRequestSet ==
    { [method |-> "GET",  url |-> "./",                       mode |-> "navigate"],
      [method |-> "GET",  url |-> "./index.html",             mode |-> "navigate"],
      [method |-> "GET",  url |-> "./report",                 mode |-> "navigate"],
      [method |-> "GET",  url |-> "./app.js",                 mode |-> "no-cors"],
      [method |-> "GET",  url |-> "./style.css",              mode |-> "no-cors"],
      [method |-> "GET",  url |-> "./manifest.webmanifest",   mode |-> "cors"],
      [method |-> "GET",  url |-> "./icon.png",               mode |-> "no-cors"],
      [method |-> "GET",  url |-> "https://cdn.example/lib.js", mode |-> "no-cors"],
      [method |-> "POST", url |-> "./index.html",             mode |-> "cors"] }

\* fetch(...) settles: with the network down it rejects; with it up it
\* resolves with an OK response, resolves with a non-OK one, or rejects.
FetchOutcomes(online) == IF online THEN {"ok", "notOk", "threw"} ELSE {"threw"}

\* caches.open(name) creates the cache when there is none.
cachesOpen(c, name) ==
    [n \in DOMAIN c \cup {name} |-> IF n \in DOMAIN c THEN c[n] ELSE {}]

\* A put that stores nothing.
cachePutNothing(c, name, url) == cachesOpen(c, name)

\* cache.put(url, resp) on the cache called name.  The storage takes every
\* response it is given.
cachePut(c, name, url) ==
    [n \in DOMAIN c \cup {name} |->
        IF n = name THEN (IF n \in DOMAIN c THEN c[n] ELSE {}) \cup {url}
        ELSE c[n]]

\* caches.match(url): a response stored under url in any cache.
cachesMatch(c, url) == \E n \in DOMAIN c : url \in c[n]

\* The worker script has been fetched and run; nothing is installed yet.
InitSw ==
    /\ flow = "sw"
    /\ lastOp = "init"
    /\ edits = 0
    /\ CsvIdle
    /\ call = [pc |-> "idle"]
    /\ so = soIdle
    /\ tq = tqIdle
    /\ rq = rqIdle
    /\ LayoutIdle
    /\ TableIdle
    /\ \E build \in {"sw.js", "part_000"}, online \in BOOLEAN :
       \E stale \in SUBSET DOMAIN SwStaleCaches(build) :
          sw = [phase |-> "parsed", build |-> build,
                caches |-> [n \in stale |-> SwStaleCaches(build)[n]],
                online |-> online, pending |-> {}, fetchedOk |-> {},
                skipWaiting |-> FALSE, claimed |-> FALSE,
                resp |-> [kind |-> "none",
                          req |-> [method |-> "", url |-> "", mode |-> ""],
                          online |-> FALSE, key |-> ""]]

\* The network comes and goes.
SetNetwork ==
    /\ flow = "sw"
    /\ sw' = [sw EXCEPT !.online = ~sw.online]
    /\ lastOp' = "network"
    /\ UNCHANGED <<flow, csvVars, call, edits, so, tq, rq, layoutVars, tableVars>>

\* "install": caches.open(CACHE_NAME), then one callback per asset.
InstallStart ==
    /\ flow = "sw"
    /\ sw.phase = "parsed"
    /\ sw' = [sw EXCEPT !.phase = "installing",
                        !.caches = cachesOpen(sw.caches, CACHE_NAME(sw.build)),
                        !.pending = Range(ASSETS(sw.build))]
    /\ lastOp' = "install"
    /\ UNCHANGED <<flow, csvVars, call, edits, so, tq, rq, layoutVars, tableVars>>

\* The callback of one asset with nothing caught: a non-OK response or a
\* failed fetch rejects it.
AssetCallbackUncaught(outcome) == IF outcome = "ok" THEN "stored" ELSE "rejected"

\* The callback of one asset: an OK response is put in the cache; a non-OK
\* response throws, a failed fetch throws, and catch logs either, so the
\* callback's promise resolves all the same.
AssetCallback(outcome) == IF outcome = "ok" THEN "stored" ELSE "skipped"

\* One asset's callback settles.  A rejected callback would reject
\* Promise.all and with it the promise given to waitUntil: the install
\* fails and the worker is discarded.
InstallAsset ==
    /\ flow = "sw"
    /\ sw.phase = "installing"
    /\ \E url \in sw.pending, outcome \in FetchOutcomes(sw.online) :
          sw' = IF AssetCallback(outcome) = "stored"
                THEN [sw EXCEPT !.pending = sw.pending \ {url},
                                !.fetchedOk = sw.fetchedOk \cup {url},
                                !.caches = cachePut(sw.caches, CACHE_NAME(sw.build), url)]
                ELSE IF AssetCallback(outcome) = "skipped"
                THEN [sw EXCEPT !.pending = sw.pending \ {url}]
                ELSE [sw EXCEPT !.phase = "redundant"]
    /\ lastOp' = "installAsset"
    /\ UNCHANGED <<flow, csvVars, call, edits, so, tq, rq, layoutVars, tableVars>>

\* Promise.all has resolved: self.skipWaiting(), and waitUntil's promise
\* resolves.
InstallFinish ==
    /\ flow = "sw"
    /\ sw.phase = "installing"
    /\ sw.pending = {}
    /\ sw' = [sw EXCEPT !.phase = "installed", !.skipWaiting = TRUE]
    /\ lastOp' = "installed"
    /\ UNCHANGED <<flow, csvVars, call, edits, so, tq, rq, layoutVars, tableVars>>

\* Only the caches of earlier builds of this worker.
StaleKeysOfBuilds(keys, name) == {k \in keys : k # name /\ k # "fonts"}

\* keys.filter((k) => k !== CACHE_NAME)
StaleKeys(keys, name) == {k \in keys : k # name}

\* "activate": every cache whose name is not CACHE_NAME is deleted, then
\* self.clients.claim().
Activate ==
    /\ flow = "sw"
    /\ sw.phase = "installed"
    /\ sw' = [sw EXCEPT !.phase = "activated",
                        !.caches = [n \in DOMAIN sw.caches
                                             \ StaleKeys(DOMAIN sw.caches,
                                                         CACHE_NAME(sw.build))
                                       |-> sw.caches[n]],
                        !.claimed = TRUE]
    /\ lastOp' = "activate"
    /\ UNCHANGED <<flow, csvVars, call, edits, so, tq, rq, layoutVars, tableVars>>

\* "fetch" for a request of a controlled page.
Fetch ==
    /\ flow = "sw"
    /\ sw.phase = "activated"
    /\ \E req \in SwRequestSet, outcome \in FetchOutcomes(sw.online) :
          LET answer(kind, key) ==
                  [kind |-> kind, req |-> req, online |-> sw.online, key |-> key]
          IN  sw' =
                IF req.method # "GET"
                THEN [sw EXCEPT !.resp = answer("unhandled", "")]
                ELSE IF cachesMatch(sw.caches, req.url)
                THEN [sw EXCEPT !.resp = answer("cached", req.url)]
                ELSE IF outcome = "ok"
                THEN [sw EXCEPT !.resp = answer("network", ""),
                                \* new URL(req.url).origin === location.origin
                                !.caches = IF req.url # "https://cdn.example/lib.js"
                                           THEN cachePut(sw.caches, CACHE_NAME(sw.build),
                                                         req.url)
                                           ELSE sw.caches]
                ELSE IF outcome = "notOk"
                THEN [sw EXCEPT !.resp = answer("networkNotOk", "")]
                ELSE IF req.mode = "navigate" /\ cachesMatch(sw.caches, "./index.html")
                THEN [sw EXCEPT !.resp = answer("cached", "./index.html")]
                ELSE [sw EXCEPT !.resp = answer("error", "")]
    /\ lastOp' = "fetch"
    /\ UNCHANGED <<flow, csvVars, call, edits, so, tq, rq, layoutVars, tableVars>>

NextSw ==
    \/ SetNetwork
    \/ InstallStart
    \/ InstallAsset
    \/ InstallFinish
    \/ Activate
    \/ Fetch

SpecSw == InitSw /\ [][NextSw]_vars

\* The browser settles every pending fetch (it resolves or rejects in
\* finite time) and runs the continuation of a resolved Promise.all.
SpecSwFair ==
    /\ SpecSw
    /\ WF_vars(InstallStart)
    /\ WF_vars(InstallAsset)
    /\ WF_vars(InstallFinish)

\* collectCrossLevelSeries() called over a layout of up to three segments
\* whose design distances are call.design (side A, side B per segment); the
\* cross-level inputs hold their initial 0.
CollectCrossLevelSeries ==
    /\ flow = "call"
    /\ call.pc = "args"
    /\ call.fn = "collectCrossLevelSeries"
    /\ LET f == [id \in {DesignId(key, seg) : key \in Range(sideConfig),
                                               seg \in DOMAIN call.design} |->
                    call.design[id[3]][IF id[2] = "sideA" THEN 1 ELSE 2]]
       IN  call' = [pc |-> "done", fn |-> call.fn, design |-> call.design,
                    spacing |-> call.spacing,
                    out |-> collectCrossLevelSeries(f, Len(call.design) + 1,
                                                    call.spacing)]
    /\ lastOp' = call.fn
    /\ UNCHANGED <<flow, sw, csvVars, edits, so, tq, rq, layoutVars, tableVars>>

NextCall ==
    \/ FormatFraction
    \/ BuildChart
    \/ ParseZones
    \/ CollectCrossLevelSeries

SpecCall == InitCall /\ [][NextCall]_vars

\* The page: its layout, station-table and CSV parts, and its functions
\* called on their own.
Init == InitLayout \/ InitTable \/ InitCsv \/ InitCall \/ InitRate

Next == NextLayout \/ NextTable \/ NextCsv \/ NextCall \/ NextRate

Spec == Init /\ [][Next]_vars

(***************************************************************************)
(* Properties of the fraction formatter                                    *)
(***************************************************************************)

FractionFormatted ==
    /\ flow = "call"
    /\ call.pc = "done"
    /\ call.fn = "nearestFractionStringInches"

\* The table entries closest to a magnitude.
ClosestFractions(a) ==
    {k \in DOMAIN fracMap :
        \A j \in DOMAIN fracMap : Abs(fracMap[k].val - a) <= Abs(fracMap[j].val - a)}

\* C13: nearestFractionStringInches(v) returns the label of the table entry
\* closest to abs(v), the one of lower index when two are equally close;
\* abs(v) >= 3 in gives 3", v = 0 gives 0", and -v gives what v gives.
C13_NearestFraction ==
    FractionFormatted =>
        LET a == Abs(call.valueIn)
            k == CHOOSE k \in ClosestFractions(a) :
                    \A j \in ClosestFractions(a) : k <= j
        IN  /\ call.out = fracMap[k].s
            /\ a >= 480 => call.out = "3\""
            /\ call.valueIn = 0 => call.out = "0\""
            /\ call.out = nearestFractionStringInches(-call.valueIn)

\* -9/32 in lies midway between 1/4 in and 5/16 in and is formatted as
\* 1/4", the entry of lower index.
C13_Witness ==
    /\ FractionFormatted
    /\ call.valueIn = -45
    /\ Cardinality(ClosestFractions(45)) = 2
    /\ call.out = "1/4\""

(***************************************************************************)
(* Properties of the CSV survey import                                     *)
(***************************************************************************)

\* The column of a header name, read off the header line.
CsvColumn(text, key) ==
    IF \E i \in DOMAIN text.headers : text.headers[i] = key
    THEN CHOOSE i \in DOMAIN text.headers :
            /\ text.headers[i] = key
            /\ \A j \in DOMAIN text.headers : text.headers[j] = key => j <= i
    ELSE 0

CsvNumberAt(text, r, key) ==
    LET c == CsvColumn(text, key)
    IN  IF c \in DOMAIN text.rows[r] THEN text.rows[r][c] ELSE BadCell

\* The data lines with a finite station, RailN and RailS.
CsvUsableRows(text) ==
    {r \in DOMAIN text.rows :
        /\ CsvNumberAt(text, r, "stationft").ok
        /\ CsvNumberAt(text, r, "railn").ok
        /\ CsvNumberAt(text, r, "rails").ok}

\* A beam entry is null without the column, the cell's number when it holds
\* one, and 0 otherwise.
CsvBeamMatches(e, text, r, key) ==
    IF CsvColumn(text, key) = 0 THEN e.null
    ELSE /\ ~e.null
         /\ e.v = IF CsvNumberAt(text, r, key).ok
                  THEN CsvNumberAt(text, r, key).v ELSE 0

\* Index i of the survey holds the measurements of data line r.
CsvRowMatches(d, i, text, r) ==
    /\ d.stationFt[i] = CsvNumberAt(text, r, "stationft").v
    /\ d.railN[i] = CsvNumberAt(text, r, "railn").v
    /\ d.railS[i] = CsvNumberAt(text, r, "rails").v
    /\ CsvBeamMatches(d.beamN[i], text, r, "beamn")
    /\ CsvBeamMatches(d.beamS[i], text, r, "beams")

SurveyDataValid(d, text) ==
    LET n == Len(d.stationFt)
    IN  /\ n >= 2
        /\ Len(d.railN) = n /\ Len(d.railS) = n
        /\ Len(d.beamN) = n /\ Len(d.beamS) = n
        /\ \A i \in 1..(n - 1) : d.stationFt[i] <= d.stationFt[i + 1]
        /\ \E f \in [1..n -> CsvUsableRows(text)] :
              /\ \A i, j \in 1..n : f[i] = f[j] => i = j
              /\ \A r \in CsvUsableRows(text) : \E i \in 1..n : f[i] = r
              /\ \A i \in 1..n : CsvRowMatches(d, i, text, f[i])

\* C11: in the CSV flow, after any sequence of Parse, Clear, text and
\* tolerance changes, surveyData is null or fully valid: at least two
\* stations, every channel as long as stationFt, stations in ascending
\* order, and every index holding the measurements of one usable data line
\* of the parsed text; a parse that fails or finds nothing leaves null.
C11_SurveyDataNullOrValid ==
    flow = "csv" =>
        /\ surveyData.isNull => surveyData = NullSurveyData
        /\ ~surveyData.isNull => SurveyDataValid(surveyData, parsedCsv)
        /\ lastOp \in {"parseThrew", "parseEmpty", "clear"} => surveyData.isNull

\* The three out-of-order lines (30, 0, 20 ft) with a short line between
\* them were parsed, and a tolerance change re-rendered the charts: the
\* survey still holds 0, 20, 30 ft with each station's own RailN.
C11_Witness ==
    /\ flow = "csv"
    /\ lastOp = "tolerance"
    /\ ~surveyData.isNull
    /\ surveyData.stationFt = <<Ft(0), Ft(20), Ft(30)>>
    /\ surveyData.railN = <<-64, 20, 60>>
    /\ surveyData.railS = <<48, -8, 0>>

(***************************************************************************)
(* Properties of the page                                                  *)
(***************************************************************************)

ComplianceRan == flow = "layout" /\ lastOp = "runCompliance"

\* The tolerance a station-level row of the compliance table is held to.
RowTolerance(row) ==
    IF row.check[1] = "baseline check"
    THEN FieldValue(fields, TolId("baselineTol"), 20)
    ELSE FieldValue(fields, TolId("crossLevelTol"), 60)

\* The value entered for the station a row is about.
RowValue(row) ==
    FieldValue(fields, StationId(row.check[2], row.check[3], row.check[4]), 0)

StationLevelRows ==
    {i \in DOMAIN latestRows :
        latestRows[i].check[1] \in {"baseline check", "cross-level"}}

\* C1: every station-level check passes exactly when abs(v) <= t: the
\* baseline and cross-level rows of a compliance run against the values and
\* tolerances entered in the layout, and the magnitude checks of a survey
\* evaluation against the rail values and the straightness tolerance.
C1_PassIffWithinTolerance ==
    /\ ComplianceRan =>
          /\ resultBody = latestRows
          /\ \A i \in StationLevelRows :
                latestRows[i].pass
                    <=> (Abs(RowValue(latestRows[i])) <= RowTolerance(latestRows[i]))
    /\ SurveyEvaluated =>
          \A i \in DOMAIN surveyTable :
             /\ surveyEval.nMagPass[i]
                   <=> (Abs(surveyTable[i].railN) <= surveyInputs.tol)
             /\ surveyEval.sMagPass[i]
                   <=> (Abs(surveyTable[i].railS) <= surveyInputs.tol)

\* A compliance run with a baseline value exactly at the tolerance, which
\* passes, and one strictly above it, which fails.
C1_Witness ==
    /\ ComplianceRan
    /\ \E i, j \in StationLevelRows :
          /\ latestRows[i].check[1] = "baseline check"
          /\ Abs(RowValue(latestRows[i])) = RowTolerance(latestRows[i])
          /\ latestRows[i].pass
          /\ latestRows[j].check[1] = "baseline check"
          /\ Abs(RowValue(latestRows[j])) > RowTolerance(latestRows[j])
          /\ ~latestRows[j].pass

\* The station inputs the last compliance run read, and the ones the
\* layout holds.
EvaluatedStationIds ==
    {StationId(latestRows[j].check[2], latestRows[j].check[3], latestRows[j].check[4]) :
        j \in StationLevelRows}

CreatedStationIds == {id \in DOMAIN fields : id[1] = "station"}

\* C12: after buildLayout and later edits of a design distance or of the
\* spacing, every baseline / cross-level station a compliance run evaluates
\* has an input that buildLayout created, and every station input that
\* buildLayout created is evaluated.
C12_EvaluatedStationsHaveFields ==
    ComplianceRan => EvaluatedStationIds = CreatedStationIds

\* Built at 60 ft segments and 30 ft spacing (inputs at 0 and 30 ft); the
\* design distance of side A was then changed to 90 ft and the check run:
\* it evaluates a side A station at 60 ft, which has no input and reads as
\* 0, and passes it.
C12_Witness ==
    /\ ComplianceRan
    /\ summary.kind = "result"
    /\ FieldValue(fields, DesignId("sideA", 1), 0) = Ft(90)
    /\ StationId("sideA", 1, Ft(60)) \in EvaluatedStationIds \ CreatedStationIds
    /\ \E j \in StationLevelRows :
          /\ latestRows[j].check = <<"baseline check", "sideA", 1, Ft(60)>>
          /\ latestRows[j].pass

\* C9: a call of stationOffsets with a non-positive spacing yields the
\* empty sequence: its loop never appends a station.  This covers the call
\* runCompliance makes after the spacing input was changed to 0 or below.
C9_NonPositiveSpacingYieldsEmpty ==
    (so.pc # "idle" /\ so.s <= 0) => so.out = <<>>

\* The page after a layout was built, the spacing changed to 0 or below and
\* the compliance check started: the handler is inside stationOffsets, has
\* appended as many stations as the model follows, and its loop condition
\* still holds.
C9_Witness ==
    /\ flow = "layout"
    /\ summary.kind = "layoutBuilt"
    /\ so.pc = "loop"
    /\ so.s <= 0
    /\ Len(so.out) = MaxLoopIter
    /\ LoopCond(so.offset, so.d)

\* buildLayout ended with its configuration error.
BuildLayoutFailed ==
    /\ flow = "layout"
    /\ lastOp' = "buildLayout"
    /\ summary'.kind = "layoutError"

\* buildSurveyStations ended with its configuration error.
BuildSurveyStationsFailed ==
    /\ flow = "table"
    /\ lastOp' = "buildSurveyStations"
    /\ surveyStatus'.kind = "invalid"

\* C10: a build step that hits a configuration error sets its status
\* message and leaves what was rendered before as it was: the inputs of the
\* layout for buildLayout, the station table and the charts for
\* buildSurveyStations.
C10_ErrorLeavesOutput ==
    [][ /\ BuildLayoutFailed => UNCHANGED fields
        /\ BuildSurveyStationsFailed =>
              UNCHANGED <<surveyTable, straightnessSvg, eccentricitySvg,
                          latestStraightnessChartSvg, latestEccentricityChartSvg>>
      ]_vars

\* A layout whose inputs are gone after a build that reported the error.
C10_Witness ==
    /\ flow = "layout"
    /\ lastOp = "buildLayout"
    /\ summary.kind = "layoutError"
    /\ fields = EmptyFields
    /\ edits > 0


(***************************************************************************)
(* Properties of the cross-level schematic                                 *)
(***************************************************************************)

DiagramDrawn ==
    /\ ComplianceRan
    /\ latestCrossLevelDiagramSvg.kind = "diagram"

\* The points of the drawing whose raw value exceeds the tolerance entered.
FailingPoints ==
    {i \in DOMAIN latestCrossLevelDiagramSvg.pts :
        Abs(latestCrossLevelDiagramSvg.pts[i].valueIn)
            > FieldValue(fields, TolId("crossLevelTol"), 60)}

\* C14: pass / fail never goes through the fraction formatter: a
\* cross-level row passes exactly when the raw value's magnitude is within
\* the tolerance, and a point of the schematic is flagged exactly when the
\* raw value's magnitude exceeds it, whatever fraction is printed for it.
C14_FlagsFromRawValue ==
    /\ ComplianceRan =>
          \A j \in DOMAIN latestRows :
             latestRows[j].check[1] = "cross-level" =>
                (latestRows[j].pass <=>
                    Abs(RowValue(latestRows[j]))
                        <= FieldValue(fields, TolId("crossLevelTol"), 60))
    /\ DiagramDrawn =>
          \A i \in DOMAIN latestCrossLevelDiagramSvg.pts :
             latestCrossLevelDiagramSvg.fails[i] <=> i \in FailingPoints

\* 0.40 in and 0.375 in are both printed as 3/8"; with the tolerance at
\* 0.375 in the first is flagged and the second is not.
C14_Witness ==
    /\ DiagramDrawn
    /\ \E i, j \in DOMAIN latestCrossLevelDiagramSvg.pts :
          /\ latestCrossLevelDiagramSvg.pts[i].valueIn = -64
          /\ latestCrossLevelDiagramSvg.pts[j].valueIn = 60
          /\ latestCrossLevelDiagramSvg.marks[i].valueLabel = "3/8\""
          /\ latestCrossLevelDiagramSvg.marks[j].valueLabel = "3/8\""
          /\ latestCrossLevelDiagramSvg.fails[i]
          /\ ~latestCrossLevelDiagramSvg.fails[j]

\* C15: the schematic draws a callout at a station exactly when the station
\* fails (abs(value) > tolerance), colours the value box red exactly for
\* the failing stations, and the callout reads "V+" followed by the nearest
\* fraction of max(0, abs(value) - tolerance).
C15_CalloutIffFail ==
    DiagramDrawn =>
        \A i \in DOMAIN latestCrossLevelDiagramSvg.pts :
           LET m == latestCrossLevelDiagramSvg.marks[i]
               v == latestCrossLevelDiagramSvg.pts[i].valueIn
               tol == FieldValue(fields, TolId("crossLevelTol"), 60)
           IN  /\ m.callout.drawn <=> i \in FailingPoints
               /\ m.boxStroke = "red" <=> i \in FailingPoints
               /\ m.callout.drawn =>
                     m.callout.s = nearestFractionStringInches(Max2(0, Abs(v) - tol))

\* A station at -0.40 in against 0.375 in: red box, callout for the 0.025 in
\* excess (printed as V+0"); a station at 0.375 in: black box, no callout.
C15_Witness ==
    /\ DiagramDrawn
    /\ \E i, j \in DOMAIN latestCrossLevelDiagramSvg.pts :
          /\ latestCrossLevelDiagramSvg.pts[i].valueIn = -64
          /\ latestCrossLevelDiagramSvg.marks[i].boxStroke = "red"
          /\ latestCrossLevelDiagramSvg.marks[i].callout = [drawn |-> TRUE, s |-> "0\""]
          /\ latestCrossLevelDiagramSvg.pts[j].valueIn = 60
          /\ latestCrossLevelDiagramSvg.marks[j].boxStroke = "black"
          /\ ~latestCrossLevelDiagramSvg.marks[j].callout.drawn

\* C16: the "adjustments required" bracket is drawn exactly when at least
\* one station fails, and it runs from the position of the first failing
\* station to the position of the last failing station.
C16_BracketSpansFailures ==
    DiagramDrawn =>
        LET d == latestCrossLevelDiagramSvg
        IN  /\ d.bracket.drawn <=> FailingPoints # {}
            /\ d.bracket.drawn =>
                  \E a, b \in FailingPoints :
                     /\ \A k \in FailingPoints : a <= k /\ k <= b
                     /\ d.bracket.x1 = d.marks[a].x
                     /\ d.bracket.x2 = d.marks[b].x

\* Both stations of a 60 ft segment (0 and 30 ft) fail: the bracket runs
\* from the left end of the plot to its right end.
C16_Witness ==
    /\ DiagramDrawn
    /\ FailingPoints = {1, 2}
    /\ latestCrossLevelDiagramSvg.bracket = [drawn |-> TRUE, x1 |-> <<0, 1>>, x2 |-> <<1, 1>>]


(***************************************************************************)
(* Properties of the charts                                                *)
(***************************************************************************)

\* The largest element of a non-empty set of numbers.
SetMax(S) == CHOOSE x \in S : \A y \in S : y <= x

\* The charts of the state were drawn from the survey and the form values
\* the state holds.
CsvChartsFresh ==
    /\ flow = "csv"
    /\ lastOp \in {"parsed", "tolerance"}
    /\ ~surveyData.isNull

TableChartsFresh ==
    /\ flow = "table"
    /\ lastOp = "evaluateAndRenderSurvey"
    /\ surveyStatus.kind = "evaluated"

\* max(maximum absolute deviation over the channels, maximum tolerance) of
\* the straightness chart and of the eccentricity chart, in 1/160 in.
StraightnessPeak(railN, railS, tol) ==
    SetMax({Abs(railN[i]) : i \in DOMAIN railN}
           \cup {Abs(railS[i]) : i \in DOMAIN railS} \cup {tol})

EccentricityPeak(railN, beamN, zones) ==
    SetMax({Abs(railN[i] - beamN[i]) : i \in DOMAIN railN}
           \cup (IF zones = <<>> THEN {EccDefaultTol}
                 ELSE {zones[k].tolIn : k \in DOMAIN zones}))

\* The peaks of the charts the state shows, each with its chart.
ChartPeaks ==
    IF CsvChartsFresh
    THEN {<<latestStraightnessChartSvg,
            StraightnessPeak(surveyData.railN, surveyData.railS, surveyInputs.tol)>>}
         \cup (IF latestEccentricityChartSvg.kind # "chart" THEN {}
               ELSE {<<latestEccentricityChartSvg,
                       EccentricityPeak(surveyData.railN,
                                        [i \in DOMAIN surveyData.beamN |->
                                            surveyData.beamN[i].v],
                                        surveyInputs.eccZones)>>})
    ELSE IF TableChartsFresh
    THEN {<<latestStraightnessChartSvg,
            StraightnessPeak(collectSurveyTable.railN, collectSurveyTable.railS,
                             surveyInputs.tol)>>}
         \cup (IF latestEccentricityChartSvg.kind # "chart" THEN {}
               ELSE {<<latestEccentricityChartSvg,
                       EccentricityPeak(collectSurveyTable.railN,
                                        collectSurveyTable.beamN, <<>>)>>})
    ELSE {}

\* C17, as the code has it: every chart's y-range is symmetric about zero,
\* and yMax is max(maximum absolute deviation over the channels, maximum
\* tolerance) * 1.25 when that product is not 0 and 1 in when it is 0.  (In
\* quarter units a peak of m is 4m and the product is 5m.)
C17_YRangeSymmetric ==
    \A c \in ChartPeaks :
       /\ c[1].kind = "chart"
       /\ c[1].yMin = -c[1].yMax
       /\ c[1].yMax = IF c[2] = 0 THEN QuarterPerIn ELSE 5 * c[2]
       /\ c[1].yMax > 0

\* C17 as stated: yMax is the product with 1 in as its floor.
C17_AsStated ==
    \A c \in ChartPeaks :
       /\ c[1].yMin = -c[1].yMax
       /\ c[1].yMax = Max2(QuarterPerIn, 5 * c[2])

\* A survey whose measurements are all 0: with the straightness tolerance
\* at 0 the straightness chart spans -1 .. 1 in, and with one zone of
\* 0.25 in the eccentricity chart spans -0.3125 .. 0.3125 in, below 1 in.
C17_Witness ==
    /\ CsvChartsFresh
    /\ surveyInputs.tol = 0
    /\ latestStraightnessChartSvg.kind = "chart"
    /\ latestStraightnessChartSvg.yMax = QuarterPerIn
    /\ latestEccentricityChartSvg.kind = "chart"
    /\ latestEccentricityChartSvg.yMax = 200
    /\ latestEccentricityChartSvg.yMin = -200


\* A chart builder was called on its own and has returned.
ChartBuilt(fn) ==
    /\ flow = "call"
    /\ call.pc = "done"
    /\ call.fn = fn

NoBeamN(data) == \A i \in DOMAIN data.beamN : data.beamN[i].null

IsPlaceholder(svg, msg) == svg.kind = "empty" /\ svg.msg = msg

\* C18: with nothing to draw the renderers return a placeholder document
\* that carries an explanatory message: the cross-level schematic when the
\* collected series is empty, the straightness and eccentricity builders
\* when surveyData is null, and the eccentricity builder when the survey has
\* no BeamN values.
C18_PlaceholderWhenNoData ==
    /\ (ComplianceRan /\ summary.kind = "result"
           /\ collectCrossLevelSeries(fields, columnsInput, spacingInput) = <<>>) =>
          IsPlaceholder(latestCrossLevelDiagramSvg, "No cross-level data available to draw.")
    /\ (ChartBuilt("buildStraightnessCharts") /\ call.args.data.isNull) =>
          IsPlaceholder(call.out, "No survey data.")
    /\ (ChartBuilt("buildEccentricityChart") /\ call.args.data.isNull) =>
          IsPlaceholder(call.out, "No survey data.")
    /\ (ChartBuilt("buildEccentricityChart") /\ ~call.args.data.isNull
           /\ NoBeamN(call.args.data)) =>
          IsPlaceholder(call.out,
             "Eccentricity requires BeamN/BeamS. Provide BeamN & BeamS columns in CSV.")
    /\ (CsvChartsFresh /\ NoBeamN(surveyData)) =>
          IsPlaceholder(latestEccentricityChartSvg,
             "Eccentricity requires BeamN/BeamS. Provide BeamN & BeamS columns in CSV.")

\* A survey without beam columns was parsed: the straightness chart is
\* drawn and the eccentricity slot holds the placeholder.
C18_Witness ==
    /\ CsvChartsFresh
    /\ NoBeamN(surveyData)
    /\ latestStraightnessChartSvg.kind = "chart"
    /\ latestEccentricityChartSvg =
          EmptySvg("Eccentricity requires BeamN/BeamS. Provide BeamN & BeamS columns in CSV.")

\* C19: buildChartSvg called with an empty station list and empty channels
\* returns a placeholder document (and does not raise).
C19_EmptySeriesPlaceholder ==
    (ChartBuilt("buildChartSvg") /\ call.args.stationFt = <<>>) =>
        call.out.kind = "empty"

\* buildChartSvg([], one empty channel) has returned: a titled plot, not a
\* placeholder, whose maximum marker sits at NaN.
C19_Witness ==
    /\ ChartBuilt("buildChartSvg")
    /\ call.args.stationFt = <<>>
    /\ call.args.series = << <<>> >>
    /\ call.out.kind = "chart"
    /\ call.out.markers[1].cx.nan


(***************************************************************************)
(* Properties of the horizontal scale                                      *)
(***************************************************************************)

\* Every element of a non-empty sequence of positions is the same.
ZeroSpan(stationFt) ==
    /\ Len(stationFt) > 0
    /\ \A i \in DOMAIN stationFt : stationFt[i] = stationFt[1]

\* The charts just drawn, each with the stations it was drawn from.
DrawnCharts ==
    (IF CsvChartsFresh
     THEN {<<c, surveyData.stationFt>> :
              c \in {d \in {latestStraightnessChartSvg, latestEccentricityChartSvg} :
                        d.kind = "chart"}}
     ELSE {})
    \cup
    (IF TableChartsFresh
     THEN {<<c, collectSurveyTable.stationFt>> :
              c \in {d \in {latestStraightnessChartSvg, latestEccentricityChartSvg} :
                        d.kind = "chart"}}
     ELSE {})
    \cup
    (IF ChartBuilt("buildChartSvg") THEN {<<call.out, call.args.stationFt>>} ELSE {})

\* C20, as the code has it: the divisor of the horizontal scale is never 0.
\* For a series whose positions are all the same the schematic divides by
\* 1 ft and puts every station at the left end of the plot; the chart
\* divides by 1e-6 ft (1 position unit).
C20_ZeroSpanDivisor ==
    /\ DiagramDrawn =>
          LET d == latestCrossLevelDiagramSvg
          IN  /\ d.spanFt >= Ft(1)
              /\ ZeroSpan([i \in DOMAIN d.pts |-> d.pts[i].stationFt]) =>
                    /\ d.spanFt = Ft(1)
                    /\ \A i \in DOMAIN d.pts : d.marks[i].x = <<0, 1>>
    /\ \A c \in DrawnCharts :
          /\ c[1].xSpan >= 1
          /\ ZeroSpan(c[2]) => c[1].xSpan = 1

\* C20 as stated: for a zero span the divisor is 1 (ft) in the schematic and
\* in the chart alike.
C20_AsStated ==
    /\ DiagramDrawn =>
          (ZeroSpan([i \in DOMAIN latestCrossLevelDiagramSvg.pts |->
                        latestCrossLevelDiagramSvg.pts[i].stationFt])
              => latestCrossLevelDiagramSvg.spanFt = Ft(1))
    /\ \A c \in DrawnCharts : ZeroSpan(c[2]) => c[1].xSpan = Ft(1)

\* A survey with both rows at 10 ft was parsed: the straightness chart
\* scales its x-axis by 1e-6 ft and marks its maximum at the left end.
C20_Witness ==
    /\ CsvChartsFresh
    /\ surveyData.stationFt = <<Ft(10), Ft(10)>>
    /\ latestStraightnessChartSvg.kind = "chart"
    /\ latestStraightnessChartSvg.xSpan = 1
    /\ latestStraightnessChartSvg.markers[1].cx = [nan |-> FALSE, share |-> <<0, 1>>]

(***************************************************************************)
(* Order of the results rows                                               *)
(***************************************************************************)

SegmentLevelRow(row) ==
    row.check[1] \in {"span deviation", "straightness", "distance check"}

StationLevelRow(row) == row.check[1] \in {"baseline check", "cross-level"}

\* The place of a row in the order the handler evaluates its checks: the
\* profile checks, then side A and side B segment by segment (the distance
\* check, then the baseline stations by offset), then the cross-level
\* stations segment by segment.
RowKey(row) ==
    LET c == row.check
    IN  IF c[2] = "profile"
        THEN <<0, 0, IF c[1] = "span deviation" THEN 0 ELSE 1, 0>>
        ELSE IF c[2] = "cross"
        THEN <<3, c[3], 0, c[4]>>
        ELSE <<IF c[2] = "sideA" THEN 1 ELSE 2, c[3],
               IF c[1] = "distance check" THEN 0 ELSE 1, c[4]>>

KeyBefore(a, b) ==
    \E k \in 1..4 : a[k] < b[k] /\ \A m \in 1..(k - 1) : a[m] = b[m]

\* The checks a compliance run over the present inputs evaluates.
EvaluatedChecks ==
    LET segs == Range(Segments(columnsInput))
    IN  {r.check : r \in Range(ProfileRows)}
        \cup {<<"distance check", key, seg, 0>> : key \in Range(sideConfig), seg \in segs}
        \cup UNION {{<<"baseline check", key, seg, o>> :
                        o \in Range(stationOffsets(
                                FieldValue(fields, DesignId(key, seg), 0), spacingInput))} :
                    key \in Range(sideConfig), seg \in segs}
        \cup UNION {{<<"cross-level", "cross", seg, o>> :
                        o \in Range(stationOffsets(CrossSegmentLen(fields, seg),
                                                   spacingInput))} :
                    seg \in segs}

ZonesParsed == flow = "call" /\ call.pc = "done"
               /\ call.fn \in {"parseZones", "parseEccZones"}

\* C22: every zone a zone parser accepts has tolIn >= 0 and
\* startFt <= endFt, a line with a negative tolerance or a reversed range
\* being rejected, so that no tolerance resolved from the table is negative.
C22_AcceptedZonesValid ==
    ZonesParsed =>
        /\ \A i \in DOMAIN call.out :
              call.out[i].tolIn >= 0 /\ call.out[i].startFt <= call.out[i].endFt
        /\ \A ft \in {Ft(25), Ft(75), Ft(150)} : tolAt(ft, call.out, 120) >= 0

\* "0,100,-0.25" alone in the textarea: the parser returns the zone, and the
\* tolerance resolved at 25 ft is -0.25 in.
C22_Witness ==
    /\ ZonesParsed
    /\ call.text = << <<Num(Ft(0)), Num(Ft(100)), Num(-40)>> >>
    /\ call.out = <<[startFt |-> Ft(0), endFt |-> Ft(100), tolIn |-> -40]>>
    /\ tolAt(Ft(25), call.out, 120) = -40

(***************************************************************************)
(* Evaluating twice                                                        *)
(***************************************************************************)

SwCache == sw.caches[CACHE_NAME(sw.build)]

\* The install fetched every listed asset successfully.
InstalledAllAssets ==
    /\ flow = "sw"
    /\ sw.phase = "activated"
    /\ sw.fetchedOk = Range(ASSETS(sw.build))

\* The worker has answered a GET that arrived while the network was down.
AnsweredOffline ==
    /\ sw.resp.kind # "none"
    /\ sw.resp.req.method = "GET"
    /\ ~sw.resp.online

\* C24: once the worker is installed with every listed asset fetched
\* successfully, a GET for a listed asset that arrives while the network is
\* down is answered from the cache with the entry stored for it, and a
\* navigation request is answered from the cache too, with the page's own
\* cached copy where there is one and with the cached index.html
\* otherwise; neither gets an error.
C24_OfflineFromCache ==
    (InstalledAllAssets /\ AnsweredOffline) =>
        /\ sw.resp.req.url \in Range(ASSETS(sw.build)) =>
              sw.resp.kind = "cached" /\ sw.resp.key = sw.resp.req.url
        /\ sw.resp.req.mode = "navigate" =>
              /\ sw.resp.kind = "cached"
              /\ sw.resp.key \in {sw.resp.req.url, "./index.html"}
              /\ sw.resp.key \in SwCache

\* sw.js installed in full; offline, the navigation to ./report, which is
\* in no cache, got the cached index.html.
C24_Witness ==
    /\ InstalledAllAssets
    /\ AnsweredOffline
    /\ sw.build = "sw.js"
    /\ sw.resp.req.url = "./report"
    /\ "./report" \notin SwCache
    /\ sw.resp.kind = "cached"
    /\ sw.resp.key = "./index.html"

\* C28: the install completes whichever assets fail to fetch or come back
\* non-OK: it is never discarded, every started install reaches the
\* installed state, and there skipWaiting has been called, every asset
\* fetched OK is in the cache and no failed asset is.
C28_InstallSurvivesFailedAssets ==
    /\ [](flow = "sw" => sw.phase # "redundant")
    /\ []((flow = "sw" /\ sw.phase = "installed") =>
              /\ sw.skipWaiting
              /\ sw.pending = {}
              /\ SwCache = sw.fetchedOk)
    /\ ((flow = "sw" /\ sw.phase = "installing") ~> (sw.phase = "installed"))

\* An install of part_000 during which only ./app.js came back OK.
C28_Witness ==
    /\ flow = "sw"
    /\ sw.phase = "installed"
    /\ sw.build = "part_000"
    /\ sw.skipWaiting
    /\ sw.fetchedOk = {"./app.js"}
    /\ SwCache = {"./app.js"}

\* C29: the activate handler leaves exactly the cache named CACHE_NAME,
\* with what it held, and from then on there is no other cache.
C29_OnlyCurrentCacheRemains ==
    /\ [][Activate =>
             /\ DOMAIN sw'.caches = {CACHE_NAME(sw.build)}
             /\ sw'.caches[CACHE_NAME(sw.build)] = SwCache]_vars
    /\ []((flow = "sw" /\ sw.phase = "activated") =>
              /\ DOMAIN sw.caches = {CACHE_NAME(sw.build)}
              /\ sw.fetchedOk \subseteq SwCache)

\* sw.js just activated: tr13-pwa-v2 alone remains, holding its assets.
C29_Witness ==
    /\ flow = "sw"
    /\ lastOp = "activate"
    /\ sw.phase = "activated"
    /\ sw.claimed
    /\ DOMAIN sw.caches = {"tr13-pwa-v2"}
    /\ sw.caches["tr13-pwa-v2"] = Range(ASSETS("sw.js"))

(***************************************************************************)
(* The concatenated cross-level series                                     *)
(***************************************************************************)

SeriesCollected ==
    flow = "call" /\ call.pc = "done" /\ call.fn = "collectCrossLevelSeries"

\* C25: whatever the design distances of the segments, at a positive
\* spacing the station positions of the concatenated cross-level series
\* are non-decreasing in output order.
C25_SeriesNonDecreasing ==
    (SeriesCollected /\ call.spacing > 0) =>
        \A i, j \in DOMAIN call.out :
            i < j => call.out[i].stationFt <= call.out[j].stationFt

\* Design distances 60, -100 and 60 ft at 30 ft spacing: the stations come
\* out at 0, 30, -40 and -10 ft.
C25_Witness ==
    /\ SeriesCollected
    /\ call.spacing = Ft(30)
    /\ [g \in DOMAIN call.design |-> call.design[g][1]] = <<Ft(60), -Ft(100), Ft(60)>>
    /\ [i \in DOMAIN call.out |-> call.out[i].stationFt]
          = <<0, Ft(30), -Ft(40), -Ft(10)>>

(***************************************************************************)
(* The chart slots of the CSV survey page                                  *)
(***************************************************************************)

\* C26: in the CSV survey flow, after page load and any sequence of Parse,
\* Clear and tolerance changes, each chart slot shows the document most
\* recently written to it: the chart just built after a Parse or a
\* tolerance change with a survey loaded, the parse error's placeholder
\* after a Parse that threw, the "No survey data." placeholder after a
\* Parse that found nothing and after Clear.
C26_SlotShowsLatestChart ==
    flow = "csv" =>
        /\ (lastOp = "parsed" \/ (lastOp = "tolerance" /\ ~surveyData.isNull)) =>
              /\ straightnessSvg = latestStraightnessChartSvg
              /\ eccentricitySvg = latestEccentricityChartSvg
        /\ lastOp = "parseThrew" =>
              /\ straightnessSvg = EmptySvg(surveyStatus.msg)
              /\ eccentricitySvg = EmptySvg(surveyStatus.msg)
        /\ lastOp \in {"parseEmpty", "clear"} =>
              /\ straightnessSvg = EmptySvg("No survey data.")
              /\ eccentricitySvg = EmptySvg("No survey data.")

\* A survey has been parsed and its straightness chart built, and the slot
\* still shows the placeholder of page load.
C26_Witness ==
    /\ flow = "csv"
    /\ lastOp = "parsed"
    /\ ~surveyData.isNull
    /\ latestStraightnessChartSvg.kind = "chart"
    /\ straightnessSvg = EmptySvg("No survey data.")
    /\ eccentricitySvg = EmptySvg("No survey data.")

(***************************************************************************)
(* Schematic against results table                                         *)
(***************************************************************************)

CrossLevelRows ==
    {j \in DOMAIN latestRows : latestRows[j].check[1] = "cross-level"}

\* The (segment, offset) stations of the table's cross-level rows and of
\* the schematic's points.
TableStations ==
    {<<latestRows[j].check[3], latestRows[j].check[4]>> : j \in CrossLevelRows}

SchematicStations ==
    {<<latestCrossLevelDiagramSvg.pts[i].segment,
       latestCrossLevelDiagramSvg.pts[i].localOffsetFt>> :
        i \in DOMAIN latestCrossLevelDiagramSvg.pts}

\* C27: after a compliance run the schematic and the results table agree:
\* they hold the same cross-level stations, one point per row, and a point
\* is flagged (and its value box drawn red) exactly when the cross-level row
\* of its segment and offset did not pass.
C27_SchematicAgreesWithTable ==
    ComplianceRan =>
        LET d == latestCrossLevelDiagramSvg
        IN  /\ SchematicStations = TableStations
            /\ Len(d.pts) = Cardinality(CrossLevelRows)
            /\ (d.kind = "empty") <=> (CrossLevelRows = {})
            /\ \A i \in DOMAIN d.pts : \A j \in CrossLevelRows :
                  (/\ latestRows[j].check[3] = d.pts[i].segment
                   /\ latestRows[j].check[4] = d.pts[i].localOffsetFt) =>
                      /\ d.fails[i] <=> ~latestRows[j].pass
                      /\ d.kind = "diagram" =>
                            ((d.marks[i].boxStroke = "red") <=> ~latestRows[j].pass)

\* Side A 90 ft against side B 60 ft at 30 ft spacing: both hold the
\* stations 0 and 30 ft of the shorter side, one failing and one passing.
C27_Witness ==
    /\ ComplianceRan
    /\ latestCrossLevelDiagramSvg.kind = "diagram"
    /\ FieldValue(fields, DesignId("sideA", 1), 0) = Ft(90)
    /\ FieldValue(fields, DesignId("sideB", 1), 0) = Ft(60)
    /\ TableStations = {<<1, 0>>, <<1, Ft(30)>>}
    /\ SchematicStations = TableStations
    /\ \E i, k \in DOMAIN latestCrossLevelDiagramSvg.fails :
          latestCrossLevelDiagramSvg.fails[i] /\ ~latestCrossLevelDiagramSvg.fails[k]

(***************************************************************************)
(* Order and error of the fraction formatter                               *)
(***************************************************************************)

\* The table index of a label.
FractionIndex(label) == CHOOSE k \in DOMAIN fracMap : fracMap[k].s = label

\* The magnitudes a behaviour formats.
FractionMagnitudes == {Abs(v) : v \in FractionValueSet}

\* C30: the formatter is monotone, 0 <= a <= b giving a table value for a
\* that is at most the one for b; and for a magnitude of at most 3 in the
\* entry returned is off by at most half the gap between that entry and its
\* table neighbour on the side of the magnitude.
C30_MonotoneWithinHalfGap ==
    FractionFormatted =>
        LET a == Abs(call.valueIn)
            k == FractionIndex(call.out)
        IN  /\ \A b \in FractionMagnitudes :
                  /\ a <= b => fracMap[k].val
                                  <= fracMap[FractionIndex(nearestFractionStringInches(b))].val
                  /\ b <= a => fracMap[FractionIndex(nearestFractionStringInches(b))].val
                                  <= fracMap[k].val
            /\ a <= 480 =>
                  /\ a > fracMap[k].val =>
                        /\ k < Len(fracMap)
                        /\ 2 * (a - fracMap[k].val) <= fracMap[k + 1].val - fracMap[k].val
                  /\ a < fracMap[k].val =>
                        /\ k > 1
                        /\ 2 * (fracMap[k].val - a) <= fracMap[k].val - fracMap[k - 1].val

\* 1 3/4 in lies midway between 1 1/2 in and 2 in: it is formatted as
\* 1 1/2", off by half the gap of 1/2 in.
C30_Witness ==
    /\ FractionFormatted
    /\ call.valueIn = 280
    /\ call.out = "1 1/2\""
    /\ 2 * (call.valueIn - fracMap[FractionIndex(call.out)].val)
          = fracMap[FractionIndex(call.out) + 1].val - fracMap[FractionIndex(call.out)].val

====
